---- MODULE Spec2Model ----
(***************************************************************************)
(* Verification model of github.com/aws-controllers-k8s/pkg.               *)
(*                                                                         *)
(* package names: New(original) builds the Names record by running goName  *)
(* (strcase conversion, the ordered initialism table, the Go-keyword       *)
(* guard) once per variant.  Go strings are TLA+ strings; a Go byte index  *)
(* i (0-based) is position i+1 of the TLA+ string, and -1 is "not found".  *)
(***************************************************************************)
EXTENDS Integers, Sequences, FiniteSets, TLC

\* ------------------------------------------------------------------------
\* Characters
\* ------------------------------------------------------------------------
UpperChars == "ABCDEFGHIJKLMNOPQRSTUVWXYZ"
LowerChars == "abcdefghijklmnopqrstuvwxyz"
DigitChars == "0123456789"

CharAt(s, i) == SubSeq(s, i + 1, i + 1)

UpperLetters == {CharAt(UpperChars, i) : i \in 0..25}
LowerLetters == {CharAt(LowerChars, i) : i \in 0..25}
Digits       == {CharAt(DigitChars, i) : i \in 0..9}

\* byte arithmetic v += 'A' - 'a' and v += 'a' - 'A' on one character
upperOf == [c \in LowerLetters |->
              CharAt(UpperChars, CHOOSE i \in 0..25 : CharAt(LowerChars, i) = c)]
lowerOf == [c \in UpperLetters |->
              CharAt(LowerChars, CHOOSE i \in 0..25 : CharAt(UpperChars, i) = c)]

ToUpperCh(c) == IF c \in LowerLetters THEN upperOf[c] ELSE c
ToLowerCh(c) == IF c \in UpperLetters THEN lowerOf[c] ELSE c

RECURSIVE MapChars(_, _, _)
MapChars(s, i, lower) ==
  IF i >= Len(s) THEN ""
  ELSE (IF lower THEN ToLowerCh(CharAt(s, i)) ELSE ToUpperCh(CharAt(s, i)))
         \o MapChars(s, i + 1, lower)

\* strings.ToLower
ToLower(s) == MapChars(s, 0, TRUE)

\* ------------------------------------------------------------------------
\* package strings
\* ------------------------------------------------------------------------
HasPrefixAt(s, i, p) ==
  /\ i + Len(p) <= Len(s)
  /\ SubSeq(s, i + 1, i + Len(p)) = p

Min(S) == CHOOSE x \in S : \A y \in S : x <= y

\* the first of the indexes hits, or -1 when there is none
FirstOf(hits) == IF hits = {} THEN -1 ELSE Min(hits)

\* strings.Index(s, substr): the index of the first occurrence, or -1
Index(s, substr) ==
  FirstOf({i \in 0..(Len(s) - Len(substr)) :
             SubSeq(s, i + 1, i + Len(substr)) = substr})

\* strings.Replace(s, old, new, n): the first n non-overlapping occurrences,
\* left to right; n < 0 is all of them.  old is never empty here.
RECURSIVE Replace(_, _, _, _)
\* the replacement of the occurrence at index p (none when p = -1) and of the
\* n - 1 next ones in what follows it
ReplaceAt(s, old, new, n, p) ==
  IF p = -1 THEN s
  ELSE SubSeq(s, 1, p) \o new
         \o Replace(SubSeq(s, p + Len(old) + 1, Len(s)), old, new, n - 1)

Replace(s, old, new, n) ==
  IF n = 0 THEN s ELSE ReplaceAt(s, old, new, n, Index(s, old))

RECURSIVE TrimLeft(_, _)
TrimLeft(s, c) ==
  IF Len(s) > 0 /\ CharAt(s, 0) = c THEN TrimLeft(SubSeq(s, 2, Len(s)), c) ELSE s

RECURSIVE TrimRight(_, _)
TrimRight(s, c) ==
  IF Len(s) > 0 /\ CharAt(s, Len(s) - 1) = c
  THEN TrimRight(SubSeq(s, 1, Len(s) - 1), c) ELSE s

\* strings.Trim(s, cutset) for a one-character cutset
Trim(s, c) == TrimRight(TrimLeft(s, c), c)

\* strings.TrimSpace, for the ASCII space the inputs can hold
TrimSpace(s) == Trim(s, " ")

\* ------------------------------------------------------------------------
\* github.com/iancoleman/strcase, as called by goName
\* ------------------------------------------------------------------------
\* the acronym table strcase ships with: "ID" is read as the word "id"
UppercaseAcronym(s) == IF s = "ID" THEN "id" ELSE s

Delimiters == {"_", " ", "-", "."}

\* toCamelInitCase: one pass over the bytes.  capNext upper-cases the next
\* letter; the first byte is lower-cased when initCase is false; letters and
\* digits are kept (a digit sets capNext), a delimiter is dropped and sets
\* capNext, any other byte is dropped.
RECURSIVE CamelLoop(_, _, _)
CamelLoop(s, i, capNext) ==
  IF i >= Len(s) THEN ""
  ELSE LET v      == CharAt(s, i)
           vIsCap == v \in UpperLetters
           vIsLow == v \in LowerLetters
           w      == IF capNext THEN ToUpperCh(v)
                     ELSE IF i = 0 THEN ToLowerCh(v)
                     ELSE v
       IN IF vIsCap \/ vIsLow THEN w \o CamelLoop(s, i + 1, FALSE)
          ELSE IF v \in Digits THEN v \o CamelLoop(s, i + 1, TRUE)
          ELSE CamelLoop(s, i + 1, v \in Delimiters)

CamelOf(t, initCase) ==
  IF t = "" THEN t ELSE CamelLoop(UppercaseAcronym(t), 0, initCase)

toCamelInitCase(s, initCase) == CamelOf(TrimSpace(s), initCase)

\* strcase.ToCamel
ToCamel(s) == toCamelInitCase(s, TRUE)

\* strcase.ToLowerCamel
ToLowerCamel(s) == toCamelInitCase(s, FALSE)

\* strcase.ToSnake = ToDelimited(s, '_'): every letter is lower-cased; a
\* delimiter is written where the kind of character changes (upper/lower,
\* letter/digit), before the last capital of a run of capitals that is
\* followed by a lower-case letter, and in place of ' ', '_', '-', '.'.
RECURSIVE SnakeLoop(_, _)
SnakeLoop(s, i) ==
  IF i >= Len(s) THEN ""
  ELSE LET v      == CharAt(s, i)
           vIsCap == v \in UpperLetters
           vIsLow == v \in LowerLetters
           vIsNum == v \in Digits
           w      == ToLowerCh(v)
           hasNext   == i + 1 < Len(s)
           next      == IF hasNext THEN CharAt(s, i + 1) ELSE ""
           nextIsCap == next \in UpperLetters
           nextIsLow == next \in LowerLetters
           nextIsNum == next \in Digits
           changed   == /\ hasNext
                        /\ \/ vIsCap /\ (nextIsLow \/ nextIsNum)
                           \/ vIsLow /\ (nextIsCap \/ nextIsNum)
                           \/ vIsNum /\ (nextIsCap \/ nextIsLow)
           prevIsCap == i > 0 /\ CharAt(s, i - 1) \in UpperLetters
       IN IF changed
          THEN (IF vIsCap /\ nextIsLow /\ prevIsCap THEN "_" ELSE "")
                 \o w
                 \o (IF vIsLow \/ vIsNum \/ nextIsNum THEN "_" ELSE "")
                 \o SnakeLoop(s, i + 1)
          ELSE (IF v \in Delimiters THEN "_" ELSE w) \o SnakeLoop(s, i + 1)

ToSnake(s) == SnakeLoop(TrimSpace(s), 0)

\* ------------------------------------------------------------------------
\* github.com/dlclark/regexp2, for the patterns of the initialism table
\* ------------------------------------------------------------------------
\* A compiled pattern is the sequence of its top-level alternatives, tried in
\* order at each position.  An alternative matches at index i when none of
\* its leading negative lookaheads (pre) matches at i, one of its literal
\* spellings (body, all of one length) is at i, and none of its trailing
\* negative lookaheads (post) matches right after it.  nil is no pattern.
nil == <<>>

\* the spellings a case-insensitive three-letter group (?i)xyz matches
FoldCases(w) ==
  {a \o b \o c : a \in {CharAt(w, 0), ToUpperCh(CharAt(w, 0))},
                 b \in {CharAt(w, 1), ToUpperCh(CharAt(w, 1))},
                 c \in {CharAt(w, 2), ToUpperCh(CharAt(w, 2))}}

\* AltMatches as it would be if the negative lookahead after the literal were
\* dropped from the pattern
AltMatchesNoLookahead(alt, s, i) ==
  \E b \in alt.body :
    /\ HasPrefixAt(s, i, b)
    /\ \A x \in alt.pre : ~HasPrefixAt(s, i, x)

AltMatches(alt, s, i) ==
  \E b \in alt.body :
    /\ HasPrefixAt(s, i, b)
    /\ \A x \in alt.pre : ~HasPrefixAt(s, i, x)
    /\ \A x \in alt.post : ~HasPrefixAt(s, i + Len(b), x)

AltLen(alt) == Len(CHOOSE b \in alt.body : TRUE)

\* length of the match that starts at index i, or -1
MatchLen(re, s, i) ==
  IF \E k \in 1..Len(re) : AltMatches(re[k], s, i)
  THEN AltLen(re[CHOOSE k \in 1..Len(re) :
                   /\ AltMatches(re[k], s, i)
                   /\ \A j \in 1..(k - 1) : ~AltMatches(re[j], s, i)])
  ELSE -1

\* index of the leftmost match starting at or after startAt, or -1
\* (Regexp.FindStringMatchStartingAt; FindStringMatch is startAt = 0)
FindFrom(re, s, startAt) ==
  FirstOf({i \in startAt..(Len(s) - 1) : MatchLen(re, s, i) >= 0})

\* the text from index pos on, with the next count matches (all of them when
\* count < 0) replaced; every match is looked for in the input as it was
RECURSIVE ReplaceTail(_, _, _, _, _)
\* the same, p being the index of the next match, or -1
ReplaceNext(re, input, replacement, pos, count, p) ==
  IF p = -1 THEN SubSeq(input, pos + 1, Len(input))
  ELSE SubSeq(input, pos + 1, p) \o replacement
         \o ReplaceTail(re, input, replacement, p + MatchLen(re, input, p), count - 1)

ReplaceTail(re, input, replacement, pos, count) ==
  ReplaceNext(re, input, replacement, pos, count,
              IF count = 0 THEN -1 ELSE FindFrom(re, input, pos))

\* the runes of the inputs that UTF-8 encodes in two bytes; every other rune
\* of the inputs is ASCII, one byte
TwoByteRunes == { "é" }

RuneLen(c) == IF c \in TwoByteRunes THEN 2 ELSE 1

\* the offset in bytes of rune i of s
RECURSIVE ByteOffset(_, _)
ByteOffset(s, i) ==
  IF i = 0 THEN 0 ELSE ByteOffset(s, i - 1) + RuneLen(CharAt(s, i - 1))

\* Regexp.getRunesAndStart: the index of the rune that starts at byte offset
\* startAt (the number of runes when startAt is the length in bytes), or -1
\* when no rune starts there
RuneIndex(s, startAt) ==
  FirstOf({i \in 0..Len(s) : ByteOffset(s, i) = startAt})

\* the replacement from rune start on
ReplaceFrom(re, input, replacement, start, count) ==
  SubSeq(input, 1, start) \o ReplaceTail(re, input, replacement, start, count)

\* Regexp.Replace(input, replacement, startAt, count), startAt being an offset
\* in bytes; the replacements of the table hold no "$" substitution
ReReplace(re, input, replacement, startAt, count) ==
  ReplaceFrom(re, input, replacement, RuneIndex(input, startAt), count)

\* the error of Regexp.Replace (from FindStringMatchStartingAt): startAt must
\* align to the start of a rune of the input
ReplaceErr(input, startAt) == RuneIndex(input, startAt) = -1

\* ------------------------------------------------------------------------
\* package names
\* ------------------------------------------------------------------------
\* initialismTranslator
Trx(camel, upper, lower, re) ==
  [camel |-> camel, upper |-> upper, lower |-> lower, re |-> re]

\* the ordered table; the number is the line of the entry in the source
initialisms ==
  <<
    (*  51 *) Trx("Ids", "IDs", "ids", <<[pre |-> {"U", "|", "u"}, body |-> {"Ids"}, post |-> {}]>>),
    (*  55 *) Trx("Id", "ID", "id", <<[pre |-> {}, body |-> {"Id"}, post |-> {"entifier", "le", "entity", "empotency"}]>>),
    (*  64 *) Trx("Dbi", "DBI", "dbi", <<[pre |-> {}, body |-> {"Dbi"}, post |-> {}]>>),
    (*  65 *) Trx("Db", "DB", "db", <<[pre |-> {}, body |-> {"Db"}, post |-> {"i"}]>>),
    (*  66 *) Trx("Db", "DB", "db", <<[pre |-> {}, body |-> {"DB"}, post |-> {}]>>),
    (*  70 *) Trx("CACert", "CACert", "caCert", <<[pre |-> {}, body |-> {"CACert"}, post |-> {}]>>),
    (*  73 *) Trx("MD5Of", "MD5Of", "md5Of", <<[pre |-> {}, body |-> {"Md5Of", "MD5Of"}, post |-> {}]>>),
    (*  75 *) Trx("Ipc", "IPC", "ipc", <<[pre |-> {}, body |-> {"Ipc"}, post |-> {}]>>),
    (*  77 *) Trx("IPAddress", "IPAddress", "ip_address", nil),
    (*  79 *) Trx("IPv4", "IPv4", "ipv4", <<[pre |-> {}, body |-> {"IPv4", "Ipv4"}, post |-> {}]>>),
    (*  80 *) Trx("IPv6", "IPv6", "ipv6", <<[pre |-> {}, body |-> {"IPv6", "Ipv6"}, post |-> {}]>>),
    (*  83 *) Trx("Ip", "IP", "ip", <<[pre |-> {}, body |-> {"Ip"}, post |-> {"art", "am"}]>>),
    (*  84 *) Trx("IPSet", "IPSet", "ip_set", nil),
    (*  87 *) Trx("Amis", "AMIs", "amis", <<[pre |-> {}, body |-> {"Amis"}, post |-> {}]>>),
    (*  88 *) Trx("Ami", "AMI", "ami", <<[pre |-> {}, body |-> {"Ami"}, post |-> {}]>>),
    (*  90 *) Trx("Acl", "ACL", "acl", nil),
    (*  91 *) Trx("Acm", "ACM", "acm", nil),
    (*  92 *) Trx("AIML", "AIML", "aiml", nil),
    (*  93 *) Trx("Acp", "ACP", "acp", nil),
    (*  94 *) Trx("Api", "API", "api", nil),
    (*  95 *) Trx("Arn", "ARN", "arn", nil),
    (*  96 *) Trx("Asn", "ASN", "asn", nil),
    (* 104 *) Trx("Awsvpc", "AWSVPC", "awsVPC", nil),
    (* 105 *) Trx("Aws", "AWS", "aws", nil),
    (* 106 *) Trx("Az", "AZ", "az", nil),
    (* 107 *) Trx("Bgp", "BGP", "bgp", nil),
    (* 108 *) Trx("Cors", "CORS", "cors", nil),
    (* 109 *) Trx("Cidr", "CIDR", "cidr", nil),
    (* 110 *) Trx("Cname", "CNAME", "cname", nil),
    (* 111 *) Trx("Cpu", "CPU", "cpu", nil),
    (* 112 *) Trx("Crl", "CRL", "crl", nil),
    (* 113 *) Trx("Cps", "CPS", "cps", nil),
    (* 114 *) Trx("Csr", "CSR", "csr", nil),
    (* 115 *) Trx("Dhcp", "DHCP", "dhcp", nil),
    (* 116 *) Trx("Dns", "DNS", "dns", nil),
    (* 117 *) Trx("Dpd", "DPD", "dpd", nil),
    (* 118 *) Trx("Ebs", "EBS", "ebs", nil),
    (* 119 *) Trx("Ec2", "EC2", "ec2", nil),
    (* 122 *) Trx("Ecr", "ECR", "ecr", <<[pre |-> {"S", "s", "D", "d"}, body |-> {"Ecr", "ecr"}, post |-> {"et", "ease"}]>>),
    (* 123 *) Trx("Ecs", "ECS", "ecs", nil),
    (* 125 *) Trx("Edi", "EDI", "edi", <<[pre |-> {}, body |-> {"Edi"}, post |-> {"t"}]>>),
    (* 126 *) Trx("Efs", "EFS", "efs", nil),
    (* 127 *) Trx("Eks", "EKS", "eks", nil),
    (* 129 *) Trx("Ena", "ENA", "ena", <<[pre |-> {}, body |-> {"Ena"}, post |-> {"bl"}]>>),
    (* 130 *) Trx("Ecmp", "ECMP", "ecmp", nil),
    (* 131 *) Trx("Fifo", "FIFO", "fifo", nil),
    (* 132 *) Trx("Fpga", "FPGA", "fpga", nil),
    (* 133 *) Trx("Gid", "GID", "gid", nil),
    (* 134 *) Trx("Gpu", "GPU", "gpu", nil),
    (* 135 *) Trx("Grpc", "GRPC", "grpc", nil),
    (* 136 *) Trx("Html", "HTML", "html", nil),
    (* 138 *) Trx("Http", "HTTP", "http", <<[pre |-> {}, body |-> {"HTTP"}, post |-> {"S" \o c : c \in UpperLetters}], [pre |-> {}, body |-> {"Http"}, post |-> {"s"}]>>),
    (* 139 *) Trx("Https", "HTTPS", "https", nil),
    (* 140 *) Trx("Iam", "IAM", "iam", nil),
    (* 141 *) Trx("Icmp", "ICMP", "icmp", nil),
    (* 143 *) Trx("Io", "IO", "io", <<[pre |-> {}, body |-> {"Io"}, post |-> {"ps"}]>>),
    (* 144 *) Trx("Iops", "IOPS", "iops", nil),
    (* 145 *) Trx("Ipam", "IPAM", "ipam", nil),
    (* 146 *) Trx("Ja3", "JA3", "ja3", nil),
    (* 147 *) Trx("Json", "JSON", "json", nil),
    (* 148 *) Trx("Jwt", "JWT", "jwt", nil),
    (* 149 *) Trx("Kms", "KMS", "kms", nil),
    (* 150 *) Trx("Ldap", "LDAP", "ldap", nil),
    (* 151 *) Trx("Mfa", "MFA", "mfa", nil),
    (* 152 *) Trx("Mibps", "MiBps", "miBps", <<[pre |-> {}, body |-> {"Mibps"}, post |-> {}]>>),
    (* 154 *) Trx("Nat", "NAT", "nat", <<[pre |-> {}, body |-> {"Nat"}, post |-> {"i"}]>>),
    (* 156 *) Trx("Oid", "OID", "oid", <<[pre |-> {}, body |-> {"Oid"}, post |-> {"c"}]>>),
    (* 157 *) Trx("OID", "OID", "oid", <<[pre |-> {}, body |-> {"OID"}, post |-> {"C"}]>>),
    (* 158 *) Trx("Oidc", "OIDC", "oidc", nil),
    (* 159 *) Trx("Ocsp", "OCSP", "ocsp", nil),
    (* 160 *) Trx("Pca", "PCA", "pca", nil),
    (* 161 *) Trx("Pid", "PID", "pid", nil),
    (* 163 *) Trx("Ramdisk", "RAMDisk", "ramDisk", <<[pre |-> {}, body |-> {"Ramdisk"}, post |-> {}]>>),
    (* 165 *) Trx("Ram", "RAM", "ram", <<[pre |-> {}, body |-> {"Ram"}, post |-> {}]>>),
    (* 166 *) Trx("Rfc", "RFC", "rfc", nil),
    (* 167 *) Trx("Sasl", "SASL", "sasl", nil),
    (* 168 *) Trx("Scram", "SCRAM", "scram", nil),
    (* 169 *) Trx("Sdk", "SDK", "sdk", nil),
    (* 170 *) Trx("Sha256", "SHA256", "sha256", nil),
    (* 171 *) Trx("Sns", "SNS", "sns", nil),
    (* 172 *) Trx("Sqli", "SQLI", "sqli", nil),
    (* 173 *) Trx("Sql", "SQL", "sql", nil),
    (* 174 *) Trx("Sqs", "SQS", "sqs", nil),
    (* 175 *) Trx("Sriov", "SRIOV", "sriov", nil),
    (* 176 *) Trx("Sse", "SSE", "sse", nil),
    (* 177 *) Trx("Ssl", "SSL", "ssl", nil),
    (* 178 *) Trx("Tcp", "TCP", "tcp", nil),
    (* 179 *) Trx("Tde", "TDE", "tde", nil),
    (* 180 *) Trx("Tpm", "TPM", "tpm", nil),
    (* 181 *) Trx("Tls", "TLS", "tls", nil),
    (* 182 *) Trx("Ttl", "TTL", "ttl", <<[pre |-> {"Thro"}, body |-> FoldCases("ttl"), post |-> {"ing", "e"}]>>),
    (* 183 *) Trx("Udp", "UDP", "udp", nil),
    (* 185 *) Trx("Uri", "URI", "uri", <<[pre |-> {"sec"}, body |-> {"uri"}, post |-> {"ty"}], [pre |-> {}, body |-> {"Uri"}, post |-> {}]>>),
    (* 186 *) Trx("Url", "URL", "url", nil),
    (* 187 *) Trx("Uuid", "UUID", "uuid", nil),
    (* 188 *) Trx("Uids", "UIDs", "uids", <<[pre |-> {}, body |-> {"Uids"}, post |-> {}]>>),
    (* 189 *) Trx("Uid", "UID", "uid", <<[pre |-> {}, body |-> {"Uid"}, post |-> {}]>>),
    (* 191 *) Trx("Ui", "UI", "ui", <<[pre |-> {}, body |-> {"UI", "Ui"}, post |-> {"D", "d"}]>>),
    (* 192 *) Trx("Vlan", "VLAN", "vlan", nil),
    (* 193 *) Trx("Vpc", "VPC", "vpc", nil),
    (* 194 *) Trx("Vpn", "VPN", "vpn", nil),
    (* 195 *) Trx("Vgw", "VGW", "vgw", nil),
    (* 196 *) Trx("Waf", "WAF", "waf", nil),
    (* 197 *) Trx("Xml", "XML", "xml", nil),
    (* 198 *) Trx("Xss", "XSS", "xss", nil),
    (* 199 *) Trx("Yaml", "YAML", "yaml", nil)
  >>

goKeywords ==
  << "break", "case", "chan", "const", "continue", "default", "defer", "else",
     "fallthrough", "for", "func", "go", "goto", "if", "import", "interface",
     "map", "package", "range", "return", "select", "struct", "switch", "type",
     "var" >>

\* strutil.InStrings
InStrings(subject, collection) ==
  \E i \in 1..Len(collection) : subject = collection[i]

\* the replacement of a camelForm: the "_" of the snake case is never added,
\* the snake branch of a rule without a pattern having ended the iteration
UpperReplacement(initTrx, snake) ==
  IF snake THEN "_" \o initTrx.upper \o "_" ELSE initTrx.upper

\* the snake branch of a rule without a pattern: lowerForm and upperForm are
\* replaced by the delimited lowerForm
SnakeLiteral(initTrx, result, toReplace) ==
  Replace(Replace(result, initTrx.lower, toReplace, -1),
          initTrx.upper, toReplace, -1)

\* a leading upperForm is lower-cased when lowerFirst is set
LowerLeadingUpper(initTrx, result, lowerFirst) ==
  IF lowerFirst /\ Index(result, initTrx.upper) = 0
  THEN Replace(result, initTrx.upper, initTrx.lower, 1)
  ELSE result

\* switch pos: the camelForm is replaced by the upperForm, but for a leading
\* one when lowerFirst is set, which is replaced by the lowerForm
ReplaceCamel(initTrx, result, lowerFirst, snake, pos) ==
  IF pos = -1 THEN result
  ELSE IF pos = 0
  THEN Replace(IF lowerFirst
               THEN Replace(result, initTrx.camel, initTrx.lower, 1)
               ELSE result,
               initTrx.camel, UpperReplacement(initTrx, snake), -1)
  ELSE Replace(result, initTrx.camel, UpperReplacement(initTrx, snake), -1)

\* CamelLiteral as it would be if the camelForm were removed from the result
CamelLiteralRemoved(initTrx, result, lowerFirst, snake) ==
  Replace(result, initTrx.camel, "", -1)

CamelLiteral(initTrx, result, lowerFirst, snake) ==
  ReplaceCamel(initTrx, result, lowerFirst, snake, Index(result, initTrx.camel))

\* one iteration of the loop of normalizeInitialisms for a rule without a
\* pattern (initTrx.re == nil)
ApplyLiteral(initTrx, result, lowerFirst, snake) ==
  IF snake
  THEN SnakeLiteral(initTrx, result, "_" \o initTrx.lower \o "_")
  ELSE CamelLiteral(initTrx, LowerLeadingUpper(initTrx, result, lowerFirst),
                    lowerFirst, snake)

\* the replacement of a match
MatchReplacement(initTrx, snake) ==
  IF snake THEN "_" \o initTrx.lower \o "_" ELSE initTrx.upper

\* after the leading match was lower-cased: the matches from index next on
\* are replaced, none when there is no next match
ReplaceRest(initTrx, lowered, snake, next) ==
  IF next = -1 THEN lowered
  ELSE ReReplace(initTrx.re, lowered, MatchReplacement(initTrx, snake), next, -1)

\* ReplaceMatches as it would be if Replace were called with count 1 instead
\* of -1
ReplaceMatchesOnce(initTrx, result, lowerFirst, snake, startFrom) ==
  IF startFrom = -1 THEN result
  ELSE IF lowerFirst /\ startFrom = 0
  THEN ReReplace(initTrx.re, result, initTrx.lower, 0, 1)
  ELSE ReReplace(initTrx.re, result, MatchReplacement(initTrx, snake), startFrom, 1)

\* startFrom is the index of the first match, or -1.  FindNextMatch searches
\* the text of the first match, i.e. the result as it was before the leading
\* match was lower-cased, from the end of that match.
ReplaceMatches(initTrx, result, lowerFirst, snake, startFrom) ==
  IF startFrom = -1 THEN result
  ELSE IF lowerFirst /\ startFrom = 0
  THEN ReplaceRest(initTrx, ReReplace(initTrx.re, result, initTrx.lower, 0, 1),
                   snake,
                   FindFrom(initTrx.re, result, MatchLen(initTrx.re, result, 0)))
  ELSE ReReplace(initTrx.re, result, MatchReplacement(initTrx, snake), startFrom, -1)

\* one iteration of the loop for a rule with a pattern
ApplyMatcher(initTrx, result, lowerFirst, snake) ==
  ReplaceMatches(initTrx, result, lowerFirst, snake,
                 FindFrom(initTrx.re, result, 0))

\* err != nil after Replace of the matches from index next on
RestErr(lowered, next) == next # -1 /\ ReplaceErr(lowered, next)

\* err != nil in the iteration for a rule with a pattern: the index of a
\* match, counted in runes, is handed to Replace as startAt
MatchesErr(initTrx, result, lowerFirst, startFrom) ==
  IF startFrom = -1 THEN FALSE
  ELSE IF lowerFirst /\ startFrom = 0
  THEN RestErr(ReReplace(initTrx.re, result, initTrx.lower, 0, 1),
               FindFrom(initTrx.re, result, MatchLen(initTrx.re, result, 0)))
  ELSE ReplaceErr(result, startFrom)

\* the iteration for initTrx returns an error
RuleErr(initTrx, result, lowerFirst) ==
  /\ initTrx.re # nil
  /\ MatchesErr(initTrx, result, lowerFirst, FindFrom(initTrx.re, result, 0))

\* ApplyRule as it would be if the pattern of a rule were ignored and its
\* camelForm replaced wherever it occurs
ApplyRuleIgnoringPattern(initTrx, result, lowerFirst, snake) ==
  ApplyLiteral(initTrx, result, lowerFirst, snake)

ApplyRule(initTrx, result, lowerFirst, snake) ==
  IF initTrx.re = nil
  THEN ApplyLiteral(initTrx, result, lowerFirst, snake)
  ELSE ApplyMatcher(initTrx, result, lowerFirst, snake)

\* for _, initTrx := range table: the rules lo..hi applied in order, each to
\* the result of the one before.  The range is split in two halves (first
\* lo..mid, then mid+1..hi on what that gave), which is the same left-to-right
\* loop and keeps the evaluation shallow.
RECURSIVE ApplyRules(_, _, _, _, _, _)
\* the second half, on the result first of the first half; the test evaluates
\* first before the second half starts
ApplyRest(table, mid, hi, first, lowerFirst, snake) ==
  IF Len(first) >= 0
  THEN ApplyRules(table, mid + 1, hi, first, lowerFirst, snake)
  ELSE first

ApplyRules(table, lo, hi, result, lowerFirst, snake) ==
  IF lo > hi THEN result
  ELSE IF lo = hi THEN ApplyRule(table[lo], result, lowerFirst, snake)
  ELSE ApplyRest(table, (lo + hi) \div 2, hi,
                 ApplyRules(table, lo, (lo + hi) \div 2, result, lowerFirst, snake),
                 lowerFirst, snake)

\* the loop with its return "", err: run is the result so far and whether
\* an iteration has returned an error
RunRule(initTrx, run, lowerFirst, snake) ==
  IF run.err THEN run
  ELSE IF RuleErr(initTrx, run.result, lowerFirst)
  THEN [result |-> "", err |-> TRUE]
  ELSE [result |-> ApplyRule(initTrx, run.result, lowerFirst, snake),
        err |-> FALSE]

RECURSIVE RunRules(_, _, _, _, _, _)
RunRest(table, mid, hi, first, lowerFirst, snake) ==
  IF first.err THEN first
  ELSE RunRules(table, mid + 1, hi, first, lowerFirst, snake)

RunRules(table, lo, hi, run, lowerFirst, snake) ==
  IF lo > hi THEN run
  ELSE IF lo = hi THEN RunRule(table[lo], run, lowerFirst, snake)
  ELSE RunRest(table, (lo + hi) \div 2, hi,
               RunRules(table, lo, (lo + hi) \div 2, run, lowerFirst, snake),
               lowerFirst, snake)

\* err != nil on return from normalizeInitialisms.  The rules write ASCII
\* only, so a subject of one-byte runes stays one, every index in it is the
\* byte offset of a rune and Replace returns no error: the loop is run for
\* the error only when the subject holds a longer rune.
normalizeErr(table, original, lowerFirst, snake) ==
  /\ ByteOffset(original, Len(original)) > Len(original)
  /\ RunRules(table, 1, Len(table), [result |-> original, err |-> FALSE],
              lowerFirst, snake).err

\* the cleanup after the loop: one strings.Replace of "__" by "_", then Trim
SnakeCleanup(result) == Trim(Replace(result, "__", "_", -1), "_")

Cleanup(result, snake) == IF snake THEN SnakeCleanup(result) ELSE result

normalizeWith(table, original, lowerFirst, snake) ==
  Cleanup(ApplyRules(table, 1, Len(table), original, lowerFirst, snake), snake)

normalizeInitialisms(original, lowerFirst, snake) ==
  normalizeWith(initialisms, original, lowerFirst, snake)

\* KeywordGuard as it would be without the check
NoKeywordGuard(result) == result

\* the keyword check that ends goName
KeywordGuard(result) ==
  IF InStrings(result, goKeywords) THEN result \o "_" ELSE result

\* if !lowerFirst { result = strcase.ToCamel(result) }
FirstCase(original, lowerFirst) ==
  IF ~lowerFirst THEN ToCamel(original) ELSE original

\* SecondPass as it would be without its normalizeInitialisms call
LowerCamelOnly(table, result, lowerFirst, snake) ==
  IF lowerFirst THEN ToLowerCamel(result) ELSE result

\* if lowerFirst { result = normalizeInitialisms(strcase.ToLowerCamel(result)) }
SecondPass(table, result, lowerFirst, snake) ==
  IF lowerFirst
  THEN normalizeWith(table, ToLowerCamel(result), lowerFirst, snake)
  ELSE result

\* SnakeCase as it would be without the strcase.ToSnake call
NoSnakeCase(result, snake) == result

\* if snake { result = strcase.ToSnake(result) }
SnakeCase(result, snake) == IF snake THEN ToSnake(result) ELSE result

\* goName before its keyword check, for a given rule table
casedWith(table, original, lowerFirst, snake) ==
  SnakeCase(
    SecondPass(table,
               normalizeWith(table, FirstCase(original, lowerFirst),
                             lowerFirst, snake),
               lowerFirst, snake),
    snake)

\* goName, for a given rule table
goNameWith(table, original, lowerFirst, snake) ==
  KeywordGuard(casedWith(table, original, lowerFirst, snake))

\* panic(err) after the second call of normalizeInitialisms, first being
\* what the first call returned
SecondPanics(table, first, lowerFirst, snake) ==
  lowerFirst /\ normalizeErr(table, ToLowerCamel(first), lowerFirst, snake)

\* goName panics: one of its calls of normalizeInitialisms returns an error
goNamePanics(table, original, lowerFirst, snake) ==
  \/ normalizeErr(table, FirstCase(original, lowerFirst), lowerFirst, snake)
  \/ SecondPanics(table,
                  normalizeWith(table, FirstCase(original, lowerFirst),
                                lowerFirst, snake),
                  lowerFirst, snake)

goName(original, lowerFirst, snake) ==
  goNameWith(initialisms, original, lowerFirst, snake)

\* the keyword check that ends goName, reading the keyword list given
KeywordGuardIn(list, result) ==
  IF InStrings(result, list) THEN result \o "_" ELSE result

\* goName, reading the rule table and the keyword list given
goNameIn(table, list, original, lowerFirst, snake) ==
  KeywordGuardIn(list, casedWith(table, original, lowerFirst, snake))

IsAlphaNum(c) == c \in UpperLetters \/ c \in LowerLetters \/ c \in Digits

\* nonAlphaNumRegexp.ReplaceAllString(s, ""): every maximal run matched by
\* [^a-zA-Z0-9]+ is replaced by the empty string
RECURSIVE RunEnd(_, _)
RunEnd(s, i) ==
  IF i < Len(s) /\ ~IsAlphaNum(CharAt(s, i)) THEN RunEnd(s, i + 1) ELSE i

\* StripNonAlphaNum as it would be if only the first run were removed
RECURSIVE StripFirstRun(_, _)
StripFirstRun(s, i) ==
  IF i >= Len(s) THEN ""
  ELSE IF IsAlphaNum(CharAt(s, i)) THEN CharAt(s, i) \o StripFirstRun(s, i + 1)
  ELSE SubSeq(s, RunEnd(s, i) + 1, Len(s))

RECURSIVE StripNonAlphaNum(_, _)
StripNonAlphaNum(s, i) ==
  IF i >= Len(s) THEN ""
  ELSE IF IsAlphaNum(CharAt(s, i)) THEN CharAt(s, i) \o StripNonAlphaNum(s, i + 1)
  ELSE StripNonAlphaNum(s, RunEnd(s, i))

\* names.New panics: one of its calls of goName does
NewPanics(o) ==
  \/ goNamePanics(initialisms, o, FALSE, FALSE)
  \/ goNamePanics(initialisms, o, TRUE, FALSE)
  \/ goNamePanics(initialisms, o, FALSE, TRUE)

\* the Names value New returns; snake is what goName(original, false, true)
\* returns, in both of its calls
NamesOf(o, snake) ==
  [ Original      |-> o,
    Camel         |-> goName(o, FALSE, FALSE),
    CamelLower    |-> goName(o, TRUE, FALSE),
    Lower         |-> ToLower(o),
    Snake         |-> snake,
    SnakeStripped |-> StripNonAlphaNum(snake, 0) ]

\* names.New
NewNames(o) == NamesOf(o, goName(o, FALSE, TRUE))

\* ------------------------------------------------------------------------
\* goName when a matcher operation reports an error
\* ------------------------------------------------------------------------
\* A fault names the operation (FindStringMatch, FindNextMatch or Replace)
\* that returns an error and, by its camelForm, the rule whose pattern does;
\* op "none" is no fault.  A run of normalizeInitialisms is the result so
\* far, whether the function has returned before the end of the loop
\* (returned), whether it returned an error (err), and whether a matcher
\* operation has reported one (reported).
Reports(fault, initTrx, op) == fault.op = op /\ fault.camel = initTrx.camel

\* return "", err
ReturnErr ==
  [result |-> "", err |-> TRUE, reported |-> TRUE, returned |-> TRUE]

\* return "", nil: what follows if err != nil after FindNextMatch
ReturnNil ==
  [result |-> "", err |-> FALSE, reported |-> TRUE, returned |-> TRUE]

\* the loop goes on with result
Continue(run, result) == [run EXCEPT !.result = result]

\* result, err = initTrx.re.Replace(result, toReplace, startFrom, -1)
ReplaceAll(initTrx, run, result, snake, startFrom, fault) ==
  IF Reports(fault, initTrx, "Replace") \/ ReplaceErr(result, startFrom)
  THEN ReturnErr
  ELSE Continue(run, ReReplace(initTrx.re, result,
                               MatchReplacement(initTrx, snake), startFrom, -1))

\* match, err = initTrx.re.FindNextMatch(match), lowered being the result
\* with the leading match lower-cased and next the index of the next match
FindNext(initTrx, run, lowered, snake, next, fault) ==
  IF Reports(fault, initTrx, "FindNextMatch") THEN ReturnNil
  ELSE IF next = -1 THEN Continue(run, lowered)
  ELSE ReplaceAll(initTrx, run, lowered, snake, next, fault)

\* after FindStringMatch found its match at startFrom, or none (-1)
Matched(initTrx, run, lowerFirst, snake, startFrom, fault) ==
  IF startFrom = -1 THEN run
  ELSE IF lowerFirst /\ startFrom = 0
  THEN IF Reports(fault, initTrx, "Replace") THEN ReturnErr
       ELSE FindNext(initTrx, run,
                     ReReplace(initTrx.re, run.result, initTrx.lower, 0, 1),
                     snake,
                     FindFrom(initTrx.re, run.result,
                              MatchLen(initTrx.re, run.result, 0)),
                     fault)
  ELSE ReplaceAll(initTrx, run, run.result, snake, startFrom, fault)

\* one iteration of the loop
Iteration(initTrx, run, lowerFirst, snake, fault) ==
  IF run.returned THEN run
  ELSE IF initTrx.re = nil
  THEN Continue(run, ApplyLiteral(initTrx, run.result, lowerFirst, snake))
  ELSE IF Reports(fault, initTrx, "FindStringMatch") THEN ReturnErr
  ELSE Matched(initTrx, run, lowerFirst, snake,
               FindFrom(initTrx.re, run.result, 0), fault)

\* the loop over the rules lo..hi, in two halves as ApplyRules
RECURSIVE Iterations(_, _, _, _, _, _, _)
IterationsRest(table, mid, hi, first, lowerFirst, snake, fault) ==
  IF first.returned THEN first
  ELSE Iterations(table, mid + 1, hi, first, lowerFirst, snake, fault)

Iterations(table, lo, hi, run, lowerFirst, snake, fault) ==
  IF lo > hi THEN run
  ELSE IF lo = hi THEN Iteration(table[lo], run, lowerFirst, snake, fault)
  ELSE IterationsRest(table, (lo + hi) \div 2, hi,
                      Iterations(table, lo, (lo + hi) \div 2, run,
                                 lowerFirst, snake, fault),
                      lowerFirst, snake, fault)

\* the end of normalizeInitialisms when the loop has ended
LoopEnd(run, snake) ==
  IF run.returned THEN run
  ELSE [run EXCEPT !.result = Cleanup(run.result, snake), !.returned = TRUE]

\* normalizeInitialisms(original, lowerFirst, snake) under fault; reported
\* says whether an earlier call has reported a matcher error
normalizeUnder(table, original, lowerFirst, snake, fault, reported) ==
  LoopEnd(Iterations(table, 1, Len(table),
                     [result |-> original, err |-> FALSE,
                      reported |-> reported, returned |-> FALSE],
                     lowerFirst, snake, fault),
          snake)

\* goName from its keyword check on; what goName did is pc ("done" when it
\* returned, "panic"), the result it returned and reported
GoNameReturns(result, reported) ==
  [pc |-> "done", result |-> KeywordGuard(result), reported |-> reported]

GoNamePanics(reported) ==
  [pc |-> "panic", result |-> "", reported |-> reported]

\* goName after its second call of normalizeInitialisms returned run
AfterSecond(run, snake) ==
  IF run.err THEN GoNamePanics(run.reported)
  ELSE GoNameReturns(SnakeCase(run.result, snake), run.reported)

\* goName after its first call of normalizeInitialisms returned run
AfterFirst(table, run, lowerFirst, snake, fault) ==
  IF run.err THEN GoNamePanics(run.reported)
  ELSE IF lowerFirst
  THEN AfterSecond(normalizeUnder(table, ToLowerCamel(run.result), lowerFirst,
                                  snake, fault, run.reported),
                   snake)
  ELSE GoNameReturns(SnakeCase(run.result, snake), run.reported)

\* goName(original, lowerFirst, snake) under fault
goNameUnder(table, original, lowerFirst, snake, fault) ==
  AfterFirst(table,
             normalizeUnder(table, FirstCase(original, lowerFirst),
                            lowerFirst, snake, fault, FALSE),
             lowerFirst, snake, fault)
\* ------------------------------------------------------------------------
\* package scalar
\* ------------------------------------------------------------------------
\* type Scalar interface: the types the functions are called with here
ScalarTypes == { "int", "string", "bool", "float64" }

\* a float64 is written by its name; NaN is not a number, "-0" is the
\* negative zero
ScalarValues(type) ==
  CASE type = "int"     -> { 0, 1, 64, 128, -1 }
    [] type = "string"  -> { "", "ABC", "XYZ", "0" }
    [] type = "bool"    -> { FALSE, TRUE }
    [] type = "float64" -> { "0", "-0", "1.5", "NaN" }

\* var zero s
ZeroValue(type) ==
  CASE type = "int"     -> 0
    [] type = "string"  -> ""
    [] type = "bool"    -> FALSE
    [] type = "float64" -> "0"

\* a pointer *s is nil or points to a value: the sequence of that value
PointerTo(v) == <<v>>

Pointers(type) == {nil} \cup {PointerTo(v) : v \in ScalarValues(type)}

\* the == of the type: NaN equals nothing, the two zeros of float64 are equal
SameFloat(a, b) ==
  /\ a # "NaN"
  /\ b # "NaN"
  /\ (IF a = "-0" THEN "0" ELSE a) = (IF b = "-0" THEN "0" ELSE b)

ValuesEqual(type, a, b) == IF type = "float64" THEN SameFloat(a, b) ELSE a = b

EqualPStrict(type, x, y) ==
  IF x = nil THEN y = nil
  ELSE IF y = nil THEN FALSE
  ELSE ValuesEqual(type, x[1], y[1])

\* EqualP as it would be if a nil pointer were not read as the zero value
EqualPNilIsNoValue(type, x, y) == EqualPStrict(type, x, y)

EqualP(type, x, y) ==
  IF x = nil THEN y = nil \/ ValuesEqual(type, y[1], ZeroValue(type))
  ELSE IF y = nil THEN ValuesEqual(type, x[1], ZeroValue(type))
  ELSE ValuesEqual(type, x[1], y[1])

\* ------------------------------------------------------------------------
\* package fieldpath
\* ------------------------------------------------------------------------
\* A []string is a slice header: the backing array arr, the index off in it
\* of element 0, the length len and the capacity cap.  arrays gives each
\* backing array its elements.  A *Path is nil or the sequence of the slice
\* that is its field parts.

\* strings.Split(s, sep), sep not empty
RECURSIVE SplitAt(_, _, _)
Split(s, sep) == SplitAt(s, sep, Index(s, sep))

SplitAt(s, sep, m) ==
  IF m = -1 THEN <<s>>
  ELSE <<SubSeq(s, 1, m)>> \o Split(SubSeq(s, m + Len(sep) + 1, Len(s)), sep)

\* strings.Join(elems, sep)
RECURSIVE Join(_, _)
Join(elems, sep) ==
  IF Len(elems) = 0 THEN ""
  ELSE IF Len(elems) = 1 THEN elems[1]
  ELSE elems[1] \o sep \o Join(Tail(elems), sep)

\* strings.EqualFold, on ASCII
EqualFold(s, t) == ToLower(s) = ToLower(t)

\* the panic of an index expression whose index is out of range
OutOfRange == "panic: index out of range"

\* the elements of the slice
Parts(arrays, parts) ==
  [i \in 1..parts.len |-> arrays[parts.arr][parts.off + i]]

\* p.parts[i]
PartAt(arrays, parts, i) ==
  IF i < 0 \/ i >= parts.len THEN OutOfRange
  ELSE arrays[parts.arr][parts.off + i + 1]

\* p.parts[lo:hi]
Reslice(parts, lo, hi) ==
  [arr |-> parts.arr, off |-> parts.off + lo, len |-> hi - lo,
   cap |-> parts.cap - lo]

\* a slice of a new array arr that holds elems
SliceOf(arr, elems) == [arr |-> arr, off |-> 0, len |-> Len(elems), cap |-> Len(elems)]

String(arrays, parts) == Join(Parts(arrays, parts), ".")

\* Pop: the part returned and the slice left
Pop(arrays, parts) ==
  IF parts.len > 0
  THEN [part |-> PartAt(arrays, parts, parts.len - 1),
        parts |-> Reslice(parts, 0, parts.len - 1)]
  ELSE [part |-> "", parts |-> parts]

\* At as it would be without its check of the index
AtUnchecked(arrays, parts, index) == PartAt(arrays, parts, index)

At(arrays, parts, index) ==
  IF index < 0 \/ parts.len = 0 \/ index > parts.len - 1 THEN ""
  ELSE PartAt(arrays, parts, index)

Front(arrays, parts) ==
  IF parts.len = 0 THEN "" ELSE PartAt(arrays, parts, 0)

\* PopFront as it would be if the first part were returned and kept
PopFrontKept(arrays, parts) ==
  [part |-> Front(arrays, parts), parts |-> parts]

PopFront(arrays, parts) ==
  IF parts.len > 0
  THEN [part |-> PartAt(arrays, parts, 0),
        parts |-> Reslice(parts, 1, parts.len)]
  ELSE [part |-> "", parts |-> parts]

Back(arrays, parts) ==
  IF parts.len = 0 THEN "" ELSE PartAt(arrays, parts, parts.len - 1)

\* the capacity append gives the array it allocates for a slice of capacity
\* cap that is full (growslice, below its threshold of 256 elements)
GrownCap(cap) == IF cap = 0 THEN 1 ELSE 2 * cap

\* the elements of the array append allocates: those of the slice, the new
\* one, and zero values up to the capacity
GrownArray(arrays, parts, part) ==
  [i \in 1..GrownCap(parts.cap) |->
     IF i <= parts.len THEN arrays[parts.arr][parts.off + i]
     ELSE IF i = parts.len + 1 THEN part
     ELSE ""]

\* PushBack, p.parts = append(p.parts, part): the arrays and the slice after
\* it.  With room left the element is written into the backing array behind
\* the slice; without, a new array, fresh, is allocated.
PushBack(arrays, parts, part, fresh) ==
  IF parts.len < parts.cap
  THEN [arrays |-> [arrays EXCEPT
                      ![parts.arr][parts.off + parts.len + 1] = part],
        parts  |-> [parts EXCEPT !.len = @ + 1]]
  ELSE [arrays |-> [arrays EXCEPT ![fresh] = GrownArray(arrays, parts, part)],
        parts  |-> [arr |-> fresh, off |-> 0, len |-> parts.len + 1,
                    cap |-> GrownCap(parts.cap)]]

\* Copy: &Path{p.parts}
Copy(parts) == <<parts>>

CopyAt(parts, index) ==
  IF index < 0 \/ parts.len = 0 \/ index > parts.len - 1 THEN nil
  ELSE <<Reslice(parts, 0, index + 1)>>

Empty(parts) == parts.len = 0

Size(parts) == parts.len

\* for i, s := range subjectSplit, from index i on; fold is the comparison
\* of HasPrefixFold.  The result is "true", "false" or the panic.
RECURSIVE PrefixLoop(_, _, _, _, _)
PrefixLoop(arrays, parts, subjectSplit, i, fold) ==
  IF i >= Len(subjectSplit) THEN "true"
  ELSE IF PartAt(arrays, parts, i) = OutOfRange THEN OutOfRange
  ELSE IF (IF fold
           THEN ~EqualFold(PartAt(arrays, parts, i), subjectSplit[i + 1])
           ELSE PartAt(arrays, parts, i) # subjectSplit[i + 1])
  THEN "false"
  ELSE PrefixLoop(arrays, parts, subjectSplit, i + 1, fold)

\* HasPrefix as it would be without its check of the lengths
HasPrefixUnchecked(arrays, parts, subject) ==
  PrefixLoop(arrays, parts, Split(subject, "."), 0, FALSE)

PrefixOf(arrays, parts, subjectSplit, fold) ==
  IF Len(subjectSplit) > parts.len THEN "false"
  ELSE PrefixLoop(arrays, parts, subjectSplit, 0, fold)

HasPrefix(arrays, parts, subject) ==
  PrefixOf(arrays, parts, Split(subject, "."), FALSE)

HasPrefixFold(arrays, parts, subject) ==
  PrefixOf(arrays, parts, Split(subject, "."), TRUE)

\* FromString: &Path{strings.Split(dotted, ".")}, the array being arr
FromString(dotted, arr) == SliceOf(arr, Split(dotted, "."))

\* ------------------------------------------------------------------------
\* The raw names New is called with
\* ------------------------------------------------------------------------
\* the originals of the table of TestNames
TestNames ==
  { "AIML", "Ami", "Acm", "AmiLaunchIndex", "Amis", "AmiType",
    "AwsVpcConfiguration", "AWSVpcConfiguration", "AWSVPCConfiguration",
    "AwsvpcConfiguration", "CacheSecurityGroup", "Camila",
    "AuthorizerResultTtlInSeconds", "DbInstanceId", "DBInstanceId",
    "DBInstanceID", "DBInstanceIdentifier", "DbiResourceId",
    "DpdTimeoutAction", "Dynamic", "Ecmp", "EdiPartyName", "Editable",
    "Ena", "Ecr", "Ecs", "Examine", "Family", "FifoTopic", "HttpsPort",
    "HTTPSPort", "Id", "ID", "Idle", "IdempotencyToken", "Identifier",
    "IoPerformance", "Iops", "IPAddressType", "IPSetType", "Ip", "IPv4",
    "Ipv4", "IPv6", "Ipv6", "Ipam", "Ipc", "Ja3", "Frame", "KeyId",
    "KeyID", "KeyIdentifier", "LdapServerMetadata",
    "MaxIdleConnectionsPercent", "MultipartUpload", "Nat", "NatGateway",
    "NativeAuditFieldsIncluded", "NumberOfAmiToKeep", "OID", "Oid",
    "Oidc", "OIDC", "Package", "Param", "Pid", "Pca", "Uid", "Uids",
    "Gids", "Grpc", "Ram", "RamdiskId", "RamDiskId", "RepositoryUriTest",
    "RequestedAmiVersion", "SaslScram512Auth", "Secret", "Secrets", "Sns",
    "Sqli", "Sql", "Sqs", "SriovNetSupport", "SSEKMSKeyID", "Tpm", "TTL",
    "Throttle", "Throttling", "UUID", "Vlan", "Xss", "MiBps",
    "LastDecreaseDateTime", "NumberOfDecreasesToday" }

\* the names the comments of normalizeInitialisms give as examples
DocNames == { "SSEKMSKeyId", "RoleArn", "IdFirstElementId" }

\* word fragments API field names are built of: initialisms in their camel and
\* upper spellings, the continuations the patterns exclude, and plain words
Words ==
  { "Id", "Key", "Dbi", "Db", "Resource", "entifier", "le", "entity",
    "empotency", "Thro", "ttl", "Ttl", "ing", "Jwt", "Tls", "Secret", "AZ",
    "SQLI", "Learn", "UUID", "Package", "Arn", "Family" }

Prefixes == { "", "Key", "Id" }

\* the longest compound of one or two words New is called with
MaxLen == 10

Compounds ==
  {c \in Words \cup {a \o b : a, b \in Words} : Len(c) <= MaxLen}

RawNames ==
  TestNames \cup DocNames \cup {p \o c : p \in Prefixes, c \in Compounds}

\* the Go keywords, as they are and with a capital first letter
KeywordNames ==
  {goKeywords[i] : i \in DOMAIN goKeywords}
    \cup {ToCamel(goKeywords[i]) : i \in DOMAIN goKeywords}

\* the empty string, lower-case, upper-case, digit and delimiter strings
PlainNames ==
  { "", "a", "x", "abc", "name", "id", "ids", "arn", "ID", "IDS", "ABC",
    "NAME", "URL", "0", "7", "123", "2024", "1a", "a1", "A1B2",
    "_", "__", "-", ".", " ", "_-", "- .", "__id", "id__", "_Id_",
    "a_b", "A-B", "a.b", "a b", "package_", "_type", "Go", "GO" }

\* names with a rune of two bytes
NonAsciiNames ==
  { "é", "éé", "éa", "aé", "éId", "ééId", "aéId", "Idé", "IdéId", "KeyéId",
    "éTtl", "éArn", "éarn", "éARN", "é_", "éKey" }

EdgeNames == KeywordNames \cup PlainNames \cup NonAsciiNames

\* ------------------------------------------------------------------------
\* State
\* ------------------------------------------------------------------------
VARIABLES
  original,   \* the argument of the call to New
  names,      \* the Names value New returned
  pc,         \* "call" before New has run, "done" after it returned,
              \* "panic" after it panicked
  scalarType, \* the type parameter s of EqualPStrict and EqualP
  argX,       \* the pointer x
  argY,       \* the pointer y
  equal,      \* what EqualPStrict and EqualP returned: the sequence of the
              \* boolean, empty before the call
  arrays,     \* the backing arrays of the slices of the Paths
  pathP,      \* the parts of the Path p := FromString(dotted)
  pathC,      \* the *Path c a Copy or CopyAt of a Path returned, or nil
  last,       \* the last call on a Path: the method op, its receiver on,
              \* its arguments arg and index, what it returned (ret, size),
              \* the parts of p and of c before it, and the number of
              \* calls so far that changed a Path or made one
  rules,      \* the package variable initialisms
  keywords,   \* the package variable goKeywords
  frames,     \* the calls of New that run concurrently: of each its
              \* argument original, the field of Names it evaluates next
              \* (pc), and the fields evaluated so far (names)
  goNameCall  \* a call of goName: its arguments, the matcher operation
              \* that reports an error (fault), and what the call did: pc
              \* ("call" before it, then "done" or "panic"), the result
              \* returned, whether a matcher error was reported
  ,
  parentDone, \* the context handed to ContextWithSigterm is cancelled
  ctxDone,    \* the channel ctx.Done() of the returned context is closed
  signalCh,   \* the signals buffered in signalCh, of capacity 1
  notifying,  \* signalCh is registered with signal.Notify
  watcher,    \* the goroutine: "select" while it waits, "cancel" when it
              \* has received a signal and calls cancel next, "exited"
  canceller,  \* the caller of the returned cancelFunc: "idle" before the
              \* call, "stop" before signal.Stop, "cancel" before cancel(),
              \* "returned"
  signalled,  \* a SIGINT or SIGTERM has been sent to the process
  sdkRepo     \* a call of EnsureSDKRepo: its arguments fetchTags and
              \* awsSDKGoVersion, the statement it is at (pc), its variable
              \* err, what os.Stat found (stat), sdkVersion, the steps run so
              \* far, each with whether it succeeded, and what it returned

nameVars == <<original, names, pc>>

scalarVars == <<scalarType, argX, argY, equal>>

pathVars == <<arrays, pathP, pathC, last>>

concVars == <<rules, keywords, frames>>

faultVars == <<goNameCall>>

sigVars ==
  <<parentDone, ctxDone, signalCh, notifying, watcher, canceller, signalled>>

repoVars == <<sdkRepo>>

vars ==
  <<nameVars, scalarVars, pathVars, concVars, faultVars, sigVars, repoVars>>

\* the zero value of Names
ZeroNames ==
  [ Original |-> "", Camel |-> "", CamelLower |-> "", Lower |-> "",
    Snake |-> "", SnakeStripped |-> "" ]

\* the package variables are as initialised and no concurrent call is made
NoCallers ==
  /\ rules = initialisms
  /\ keywords = goKeywords
  /\ frames = <<>>

\* EnsureSDKRepo called with fetchTags and awsSDKGoVersion, at statement at
RepoCall(fetchTags, awsSDKGoVersion, at) ==
  [fetchTags |-> fetchTags, awsSDKGoVersion |-> awsSDKGoVersion, pc |-> at,
   err |-> "nil", stat |-> "", sdkVersion |-> "", steps |-> <<>>,
   ret |-> ""]

\* EnsureSDKRepo is not called
NoRepoCall == sdkRepo = RepoCall(FALSE, "", "idle")

\* ContextWithSigterm is not called
NoSigterm ==
  /\ parentDone = FALSE
  /\ ctxDone = FALSE
  /\ signalCh = <<>>
  /\ notifying = FALSE
  /\ watcher = "exited"
  /\ canceller = "idle"
  /\ signalled = FALSE

NoFault == [op |-> "none", camel |-> ""]

\* no call of goName is made on its own
NoGoNameCall ==
  goNameCall = [original |-> "", lowerFirst |-> FALSE, snake |-> FALSE,
                fault |-> NoFault, pc |-> "idle", result |-> "",
                reported |-> FALSE]

\* no call of package scalar is made
NoScalarCall ==
  /\ scalarType = "int"
  /\ argX = nil
  /\ argY = nil
  /\ equal = [strict |-> <<>>, loose |-> <<>>]

\* a call on a Path
Call(op, on, arg, index, ret, size) ==
  [op |-> op, on |-> on, arg |-> arg, index |-> index, ret |-> ret,
   size |-> size, calls |-> last.calls + 1,
   p |-> Parts(arrays, pathP),
   c |-> IF pathC = nil THEN <<>> ELSE Parts(arrays, pathC[1])]

\* no Path is made
NoPath ==
  /\ arrays = <<<<>>, <<>>>>
  /\ pathP = SliceOf(1, <<>>)
  /\ pathC = nil
  /\ last = [op |-> "", on |-> "", arg |-> "", index |-> 0, ret |-> "",
             size |-> 0, calls |-> 0, p |-> <<>>, c |-> <<>>]

\* no call of New is made
NoNamesCall ==
  /\ original = ""
  /\ names = ZeroNames
  /\ pc = "done"

Init ==
  /\ original \in RawNames
  /\ names = ZeroNames
  /\ pc = "call"
  /\ NoScalarCall
  /\ NoPath
  /\ NoCallers
  /\ NoGoNameCall
  /\ NoSigterm
  /\ NoRepoCall

\* names.New(original): it returns the Names value, or panics
New ==
  /\ pc = "call"
  /\ IF NewPanics(original)
     THEN pc' = "panic" /\ UNCHANGED names
     ELSE names' = NewNames(original) /\ pc' = "done"
  /\ UNCHANGED <<original, scalarVars, pathVars, concVars, faultVars, sigVars, repoVars>>

Next == New

Spec == Init /\ [][Next]_vars

\* New called with a keyword, a string without words, or a name that is not
\* ASCII
EdgeInit ==
  /\ original \in EdgeNames
  /\ names = ZeroNames
  /\ pc = "call"
  /\ NoScalarCall
  /\ NoPath
  /\ NoCallers
  /\ NoGoNameCall
  /\ NoSigterm
  /\ NoRepoCall

EdgeSpec == EdgeInit /\ [][Next]_vars

\* ------------------------------------------------------------------------
\* package scalar: the two functions called on a pair of pointers
\* ------------------------------------------------------------------------
ScalarInit ==
  /\ scalarType \in ScalarTypes
  /\ argX \in Pointers(scalarType)
  /\ argY \in Pointers(scalarType)
  /\ equal = [strict |-> <<>>, loose |-> <<>>]
  /\ NoNamesCall
  /\ NoPath
  /\ NoCallers
  /\ NoGoNameCall
  /\ NoSigterm
  /\ NoRepoCall

CallEqualPStrict ==
  /\ equal.strict = <<>>
  /\ equal' = [equal EXCEPT !.strict = <<EqualPStrict(scalarType, argX, argY)>>]
  /\ UNCHANGED <<scalarType, argX, argY, nameVars, pathVars, concVars, faultVars, sigVars, repoVars>>

CallEqualP ==
  /\ equal.loose = <<>>
  /\ equal' = [equal EXCEPT !.loose = <<EqualP(scalarType, argX, argY)>>]
  /\ UNCHANGED <<scalarType, argX, argY, nameVars, pathVars, concVars, faultVars, sigVars, repoVars>>

ScalarNext == CallEqualPStrict \/ CallEqualP

ScalarSpec == ScalarInit /\ [][ScalarNext]_vars

\* ------------------------------------------------------------------------
\* package fieldpath: a Path p, a copy c of one of the two, and the calls of
\* their methods in any order
\* ------------------------------------------------------------------------
\* the dotted strings FromString is called with
PathStrings ==
  { "", "Author", "Author.Name", "Author.Address.State" }

\* the parts PushBack is called with
PushedParts == { "Country" }

\* the subjects HasPrefix and HasPrefixFold are called with
Subjects ==
  { "", ".", "Author", "author", "Name", "Author.", "Author.Name",
    "AUTHOR.NAME", "Author.Address", "Author.Name.First",
    "Author.Address.State.Code" }

\* PushBack is called on a Path of fewer than MaxParts parts
MaxParts == 3

\* a run makes at most MaxCalls calls that change a Path or make one
MaxCalls == 3

\* the indexes At and CopyAt are called with
Indexes == (0 - 1)..MaxParts

Receivers == { "p", "c" }

\* the receiver is a Path: c may be nil
IsPath(on) == on = "p" \/ pathC # nil

\* the receiver is a Path and the run may change it or copy it
MayChange(on) == IsPath(on) /\ last.calls < MaxCalls

PartsOf(on) == IF on = "p" THEN pathP ELSE pathC[1]

\* the other Path, nil when there is none
OtherThan(on) == IF on = "p" THEN pathC ELSE <<pathP>>

\* the slices that refer to array a
SlicesOf(a, partsP, ptrC) ==
  {r \in {partsP} \cup {ptrC[k] : k \in DOMAIN ptrC} : r.arr = a}

\* the first index of array a that a slice can reach
Reach(a, partsP, ptrC) ==
  IF SlicesOf(a, partsP, ptrC) = {} THEN 0
  ELSE Min({r.off : r \in SlicesOf(a, partsP, ptrC)})

\* element k of the array is an element of one of the slices
InSlice(refs, k) == \E r \in refs : r.off < k /\ k <= r.off + r.len

\* What the Paths can still read of arrays arrs.  An array no slice refers to
\* is collected; the elements before the first offset are out of reach and
\* dropped; an element that is in no slice is written by append before any
\* slice reads it, and is kept as the zero value.
LiveArrays(arrs, partsP, ptrC) ==
  [a \in DOMAIN arrs |->
     IF SlicesOf(a, partsP, ptrC) = {} THEN <<>>
     ELSE [i \in 1..(Len(arrs[a]) - Reach(a, partsP, ptrC)) |->
             IF InSlice(SlicesOf(a, partsP, ptrC), i + Reach(a, partsP, ptrC))
             THEN arrs[a][i + Reach(a, partsP, ptrC)]
             ELSE ""]]

\* the slice, its offset counted from the first index in reach
LiveSlice(parts, partsP, ptrC) ==
  [parts EXCEPT !.off = @ - Reach(parts.arr, partsP, ptrC)]

\* an array no Path refers to once the receiver has left its own
FreshArray(parts, other) ==
  IF other # nil /\ other[1].arr = parts.arr THEN 3 - parts.arr ELSE parts.arr

\* the Paths become partsP and ptrC, the arrays arrs
StoreAll(arrs, partsP, ptrC) ==
  /\ pathP' = LiveSlice(partsP, partsP, ptrC)
  /\ pathC' = [k \in DOMAIN ptrC |-> LiveSlice(ptrC[k], partsP, ptrC)]
  /\ arrays' = LiveArrays(arrs, partsP, ptrC)

\* the receiver's parts become parts, the arrays arrs
Store(on, arrs, parts) ==
  StoreAll(arrs, IF on = "p" THEN parts ELSE pathP,
           IF on = "c" THEN <<parts>> ELSE pathC)

PathInit ==
  /\ \E dotted \in PathStrings :
       /\ arrays = <<Split(dotted, "."), <<>>>>
       /\ pathP = FromString(dotted, 1)
       /\ last = [op |-> "FromString", on |-> "p", arg |-> dotted,
                  index |-> 0, ret |-> "path", size |-> 0, calls |-> 0,
                  p |-> <<>>, c |-> <<>>]
  /\ pathC = nil
  /\ NoNamesCall
  /\ NoScalarCall
  /\ NoCallers
  /\ NoGoNameCall
  /\ NoSigterm
  /\ NoRepoCall

Popped(on, op, popped) ==
  /\ Store(on, arrays, popped.parts)
  /\ last' = Call(op, on, "", 0, popped.part, 0)

CallPop(on) ==
  /\ MayChange(on)
  /\ Popped(on, "Pop", Pop(arrays, PartsOf(on)))
  /\ UNCHANGED <<nameVars, scalarVars, concVars, faultVars, sigVars, repoVars>>

CallPopFront(on) ==
  /\ MayChange(on)
  /\ Popped(on, "PopFront", PopFront(arrays, PartsOf(on)))
  /\ UNCHANGED <<nameVars, scalarVars, concVars, faultVars, sigVars, repoVars>>

Pushed(on, part, pushed) ==
  /\ Store(on, pushed.arrays, pushed.parts)
  /\ last' = Call("PushBack", on, part, 0, "", 0)

CallPushBack(on, part) ==
  /\ MayChange(on)
  /\ PartsOf(on).len < MaxParts
  /\ Pushed(on, part,
            PushBack(arrays, PartsOf(on), part,
                     FreshArray(PartsOf(on), OtherThan(on))))
  /\ UNCHANGED <<nameVars, scalarVars, concVars, faultVars, sigVars, repoVars>>

\* c = on.Copy() or c = on.CopyAt(index), made being what it returned
Copied(on, op, index, made) ==
  /\ StoreAll(arrays, pathP, made)
  /\ last' = Call(op, on, "", index, IF made = nil THEN "nil" ELSE "path", 0)

CallCopy(on) ==
  /\ MayChange(on)
  /\ Copied(on, "Copy", 0, Copy(PartsOf(on)))
  /\ UNCHANGED <<nameVars, scalarVars, concVars, faultVars, sigVars, repoVars>>

CallCopyAt(on, index) ==
  /\ MayChange(on)
  /\ Copied(on, "CopyAt", index, CopyAt(PartsOf(on), index))
  /\ UNCHANGED <<nameVars, scalarVars, concVars, faultVars, sigVars, repoVars>>

\* a method that changes no Path returned ret or size
Returned(call) ==
  /\ last' = [call EXCEPT !.calls = last.calls]
  /\ UNCHANGED <<arrays, pathP, pathC, nameVars, scalarVars, concVars, faultVars, sigVars, repoVars>>

BoolString(b) == IF b THEN "true" ELSE "false"

CallString(on) ==
  /\ IsPath(on)
  /\ Returned(Call("String", on, "", 0, String(arrays, PartsOf(on)), 0))

CallAt(on, index) ==
  /\ IsPath(on)
  /\ Returned(Call("At", on, "", index, At(arrays, PartsOf(on), index), 0))

CallFront(on) ==
  /\ IsPath(on)
  /\ Returned(Call("Front", on, "", 0, Front(arrays, PartsOf(on)), 0))

CallBack(on) ==
  /\ IsPath(on)
  /\ Returned(Call("Back", on, "", 0, Back(arrays, PartsOf(on)), 0))

CallEmpty(on) ==
  /\ IsPath(on)
  /\ Returned(Call("Empty", on, "", 0, BoolString(Empty(PartsOf(on))), 0))

CallSize(on) ==
  /\ IsPath(on)
  /\ Returned(Call("Size", on, "", 0, "", Size(PartsOf(on))))

CallHasPrefix(on, subject) ==
  /\ IsPath(on)
  /\ Returned(Call("HasPrefix", on, subject, 0,
                   HasPrefix(arrays, PartsOf(on), subject), 0))

CallHasPrefixFold(on, subject) ==
  /\ IsPath(on)
  /\ Returned(Call("HasPrefixFold", on, subject, 0,
                   HasPrefixFold(arrays, PartsOf(on), subject), 0))

\* p is changed, copied into c and read; c is changed and read
PathNext ==
  \/ \E on \in Receivers :
       \/ CallPop(on)
       \/ CallPopFront(on)
       \/ \E part \in PushedParts : CallPushBack(on, part)
       \/ CallString(on)
       \/ \E index \in Indexes : CallAt(on, index)
       \/ CallFront(on)
       \/ CallBack(on)
       \/ CallEmpty(on)
       \/ CallSize(on)
  \/ CallCopy("p")
  \/ \E index \in Indexes : CallCopyAt("p", index)

PathSpec == PathInit /\ [][PathNext]_vars

\* the dotted strings the Paths HasPrefix is called on are made from
PrefixStrings ==
  { "", "Author", "Author.Name", "author.name", "Author.Address.State" }

PrefixInit ==
  /\ \E dotted \in PrefixStrings :
       /\ arrays = <<Split(dotted, "."), <<>>>>
       /\ pathP = FromString(dotted, 1)
       /\ last = [op |-> "FromString", on |-> "p", arg |-> dotted,
                  index |-> 0, ret |-> "path", size |-> 0, calls |-> 0,
                  p |-> <<>>, c |-> <<>>]
  /\ pathC = nil
  /\ NoNamesCall
  /\ NoScalarCall
  /\ NoCallers
  /\ NoGoNameCall
  /\ NoSigterm
  /\ NoRepoCall

\* p is shortened at either end and asked for its prefixes
PrefixNext ==
  \/ CallPop("p")
  \/ CallPopFront("p")
  \/ \E subject \in Subjects : CallHasPrefix("p", subject)
  \/ \E subject \in Subjects : CallHasPrefixFold("p", subject)

PrefixSpec == PrefixInit /\ [][PrefixNext]_vars

\* ------------------------------------------------------------------------
\* package names: calls of New that run concurrently
\* ------------------------------------------------------------------------
\* the arguments of the concurrent calls
ConcNames == { "Id", "range", "éId" }

\* MaxCallers goroutines call New
MaxCallers == 2

Callers == 1..MaxCallers

\* the field New evaluates after field, in the order of the composite
\* literal; Original and Lower call no goName
FieldAfter(field) ==
  IF field = "Camel" THEN "CamelLower"
  ELSE IF field = "CamelLower" THEN "Snake"
  ELSE IF field = "Snake" THEN "SnakeStripped"
  ELSE "done"

\* the arguments lowerFirst and snake of the goName call for a field
LowerFirstOf(field) == field = "CamelLower"

SnakeOf(field) == field \in {"Snake", "SnakeStripped"}

ConcInit ==
  /\ rules = initialisms
  /\ keywords = goKeywords
  /\ frames \in [Callers -> {[original |-> o, pc |-> "Camel",
                               names |-> [ZeroNames EXCEPT !.Original = o]] :
                              o \in ConcNames}]
  /\ NoNamesCall
  /\ NoScalarCall
  /\ NoPath
  /\ NoGoNameCall
  /\ NoSigterm
  /\ NoRepoCall

\* the frame of caller c as if every call ran in the frame of the first
SharedFrame(all, c) == all[1]

\* the frame of caller c: the argument and the result are the call's own
Frame(all, c) == all[c]

\* frame f once the goName call for a field has returned result: the field
\* is evaluated, and Lower, which calls no goName, on the way to Snake
Evaluated(f, field, result) ==
  [f EXCEPT !.names[field] =
              IF field = "SnakeStripped" THEN StripNonAlphaNum(result, 0)
              ELSE result,
            !.names.Lower =
              IF field = "CamelLower" THEN ToLower(f.original) ELSE @,
            !.pc = FieldAfter(field)]

\* a panic that is not recovered ends the program
Running == \A c \in Callers : frames[c].pc # "panic"

\* caller c evaluates the next field of its Names: the goName call reads the
\* package variables and returns, or panics
CallGoName(c, field) ==
  /\ Running
  /\ frames[c].pc = field
  /\ frames' =
       [frames EXCEPT ![c] =
          IF goNamePanics(rules, Frame(frames, c).original,
                          LowerFirstOf(field), SnakeOf(field))
          THEN [@ EXCEPT !.pc = "panic"]
          ELSE Evaluated(Frame(frames, c), field,
                         goNameIn(rules, keywords, Frame(frames, c).original,
                                  LowerFirstOf(field), SnakeOf(field)))]
  /\ UNCHANGED <<rules, keywords, nameVars, scalarVars, pathVars, faultVars, sigVars, repoVars>>

ConcNext ==
  \E c \in Callers :
    \/ CallGoName(c, "Camel")
    \/ CallGoName(c, "CamelLower")
    \/ CallGoName(c, "Snake")
    \/ CallGoName(c, "SnakeStripped")

ConcSpec == ConcInit /\ [][ConcNext]_vars

\* ------------------------------------------------------------------------
\* package names: goName when a matcher operation reports an error
\* ------------------------------------------------------------------------
\* the names goName is called with
FaultNames == { "Id", "IdFirstElementId", "KeyId", "Identifier", "SecretTtl" }

\* the rules whose pattern reports the error
FaultRules == { "Id", "Ttl", "Ecr" }

MatcherOps == { "FindStringMatch", "FindNextMatch", "Replace" }

Faults ==
  {NoFault} \cup {[op |-> op, camel |-> camel] :
                    op \in MatcherOps, camel \in FaultRules}

FaultInit ==
  /\ \E o \in FaultNames, lowerFirst \in BOOLEAN, snake \in BOOLEAN,
        fault \in Faults :
       goNameCall = [original |-> o, lowerFirst |-> lowerFirst,
                     snake |-> snake, fault |-> fault, pc |-> "call",
                     result |-> "", reported |-> FALSE]
  /\ NoNamesCall
  /\ NoScalarCall
  /\ NoPath
  /\ NoCallers
  /\ NoSigterm
  /\ NoRepoCall

\* goName returned what did.result is, or panicked
GoNameDid(did) ==
  goNameCall' = [goNameCall EXCEPT !.pc = did.pc, !.result = did.result,
                                   !.reported = did.reported]

\* goName(original, lowerFirst, snake)
CallGoNameUnder ==
  /\ goNameCall.pc = "call"
  /\ GoNameDid(goNameUnder(initialisms, goNameCall.original,
                           goNameCall.lowerFirst, goNameCall.snake,
                           goNameCall.fault))
  /\ UNCHANGED <<nameVars, scalarVars, pathVars, concVars, sigVars, repoVars>>

FaultNext == CallGoNameUnder

FaultSpec == FaultInit /\ [][FaultNext]_vars

\* ------------------------------------------------------------------------
\* package util: ContextWithSigterm
\* ------------------------------------------------------------------------
\* the signals signal.Notify is called with: os.Interrupt, syscall.SIGTERM
Signals == { "SIGINT", "SIGTERM" }

\* make(chan os.Signal, 1)
SignalChCap == 1

otherVars == <<nameVars, scalarVars, pathVars, concVars, faultVars, repoVars>>

\* ContextWithSigterm has returned: the context is derived, the channel made
\* and registered, the goroutine started
SigInit ==
  /\ parentDone = FALSE
  /\ ctxDone = FALSE
  /\ signalCh = <<>>
  /\ notifying = TRUE
  /\ watcher = "select"
  /\ canceller = "idle"
  /\ signalled = FALSE
  /\ NoNamesCall
  /\ NoScalarCall
  /\ NoPath
  /\ NoCallers
  /\ NoGoNameCall
  /\ NoRepoCall

\* The process is sent sig.  Package signal sends it to a registered channel
\* without blocking: it is dropped when the buffer is full.
Signal(sig) ==
  /\ signalled' = TRUE
  /\ signalCh' = IF notifying /\ Len(signalCh) < SignalChCap
                 THEN Append(signalCh, sig) ELSE signalCh
  /\ UNCHANGED <<parentDone, ctxDone, notifying, watcher, canceller,
                 otherVars>>

\* the parent context is cancelled
ParentCancel ==
  /\ ~parentDone
  /\ parentDone' = TRUE
  /\ UNCHANGED <<ctxDone, signalCh, notifying, watcher, canceller, signalled,
                 otherVars>>

\* context.WithCancel: the cancellation of the parent reaches the child
Propagate ==
  /\ parentDone /\ ~ctxDone
  /\ ctxDone' = TRUE
  /\ UNCHANGED <<parentDone, signalCh, notifying, watcher, canceller,
                 signalled, otherVars>>

\* the returned cancelFunc is called, for the first time or again
CallCancelFunc ==
  /\ canceller \in {"idle", "returned"}
  /\ canceller' = "stop"
  /\ UNCHANGED <<parentDone, ctxDone, signalCh, notifying, watcher, signalled,
                 otherVars>>

\* signal.Stop(signalCh)
CancelFuncStop ==
  /\ canceller = "stop"
  /\ notifying' = FALSE
  /\ canceller' = "cancel"
  /\ UNCHANGED <<parentDone, ctxDone, signalCh, watcher, signalled,
                 otherVars>>

\* cancel(), and cancelFunc returns
CancelFuncCancel ==
  /\ canceller = "cancel"
  /\ ctxDone' = TRUE
  /\ canceller' = "returned"
  /\ UNCHANGED <<parentDone, signalCh, notifying, watcher, signalled,
                 otherVars>>

\* DoneReady as it would be if the select had no case <-ctx.Done()
DoneNeverReady(done) == FALSE

\* case <-ctx.Done() can proceed
DoneReady(done) == done

\* the select of the goroutine: it receives a signal and goes on to cancel,
\* or finds the context done and returns; with both ready either is taken
WatcherSelect ==
  /\ watcher = "select"
  /\ \/ /\ signalCh # <<>>
        /\ signalCh' = Tail(signalCh)
        /\ watcher' = "cancel"
     \/ /\ DoneReady(ctxDone)
        /\ watcher' = "exited"
        /\ UNCHANGED signalCh
  /\ UNCHANGED <<parentDone, ctxDone, notifying, canceller, signalled,
                 otherVars>>

\* case <-signalCh: cancel(), and the goroutine returns
WatcherCancel ==
  /\ watcher = "cancel"
  /\ ctxDone' = TRUE
  /\ watcher' = "exited"
  /\ UNCHANGED <<parentDone, signalCh, notifying, canceller, signalled,
                 otherVars>>

SigNext ==
  \/ \E sig \in Signals : Signal(sig)
  \/ ParentCancel
  \/ Propagate
  \/ CallCancelFunc
  \/ CancelFuncStop
  \/ CancelFuncCancel
  \/ WatcherSelect
  \/ WatcherCancel

SigSpec == SigInit /\ [][SigNext]_vars

\* The goroutine and a cancelFunc that has been called are scheduled, and a
\* cancelled parent cancels its children; when a signal is sent, the parent
\* cancelled or cancelFunc called is up to the environment.
SigLive ==
  /\ SigSpec
  /\ WF_vars(WatcherSelect)
  /\ WF_vars(WatcherCancel)
  /\ WF_vars(Propagate)
  /\ WF_vars(CancelFuncStop)
  /\ WF_vars(CancelFuncCancel)

\* ------------------------------------------------------------------------
\* package util: EnsureSDKRepo
\* ------------------------------------------------------------------------
\* the versions EnsureSDKRepo is called with
Versions == { "v1.44.93", "1.44.93", "vv1.44.93", "", "v", "V1.0" }

\* what os.Stat(sdkDir) finds: the directory, nothing (an error that
\* os.IsNotExist accepts), or another error
StatOutcomes == { "exists", "notexist", "error" }

\* EnsureSemverPrefix as it would be without the strings.TrimLeft
PrefixUntrimmed(str) == "v" \o str

EnsureSemverPrefix(str) == "v" \o TrimLeft(str, "v")

GetSDKVersion(awsSDKGoVersion) == awsSDKGoVersion

\* the error a step returns when it fails, and what EnsureSDKRepo makes of it
ErrorOf(step) == "err" \o step

Wrapped(step, e) ==
  IF step = "CloneRepository" THEN "canot clone repository: " \o e
  ELSE IF step = "FetchRepositoryTags" THEN "cannot fetch tags: " \o e
  ELSE IF step = "LoadRepository" THEN "cannot read local repository: " \o e
  ELSE IF step = "CheckoutRepositoryTag" THEN "cannot checkout tag: " \o e
  ELSE e

RepoInit ==
  /\ \E fetchTags \in BOOLEAN, awsSDKGoVersion \in Versions :
       sdkRepo = RepoCall(fetchTags, awsSDKGoVersion, "MkdirAll")
  /\ NoNamesCall
  /\ NoScalarCall
  /\ NoPath
  /\ NoCallers
  /\ NoGoNameCall
  /\ NoSigterm

\* the call of step has run with result ok: on failure EnsureSDKRepo returns
\* the error, else it goes on at statement next
StepDone(call, step, ok, next) ==
  IF ok
  THEN [call EXCEPT !.steps = Append(@, [name |-> step, ok |-> TRUE]),
                    !.pc = next]
  ELSE [call EXCEPT !.steps = Append(@, [name |-> step, ok |-> FALSE]),
                    !.pc = "returned",
                    !.ret = Wrapped(step, ErrorOf(step))]

\* err = step(...) assigns the variable err of the function
ErrSet(call, ok, step) ==
  [call EXCEPT !.err = IF ok THEN "nil" ELSE ErrorOf(step)]

\* the statement after the clone: the fetch when fetchTags, else the version
AfterClone(fetchTags) ==
  IF fetchTags THEN "FetchRepositoryTags" ELSE "GetSDKVersion"

\* if err = os.MkdirAll(srcPath, os.ModePerm); err != nil { return err }
CallMkdirAll(ok) ==
  /\ sdkRepo.pc = "MkdirAll"
  /\ sdkRepo' = ErrSet(StepDone(sdkRepo, "MkdirAll", ok, "Stat"), ok,
                       "MkdirAll")
  /\ UNCHANGED <<nameVars, scalarVars, pathVars, concVars, faultVars, sigVars>>

\* if _, err := os.Stat(sdkDir); os.IsNotExist(err): the err declared here
\* is not the variable err of the function
CallStat(found) ==
  /\ sdkRepo.pc = "Stat"
  /\ sdkRepo' = [sdkRepo EXCEPT
                   !.stat = found,
                   !.pc = IF found = "notexist" THEN "CloneRepository"
                          ELSE AfterClone(sdkRepo.fetchTags)]
  /\ UNCHANGED <<nameVars, scalarVars, pathVars, concVars, faultVars, sigVars>>

\* err = CloneRepository(ctx, sdkDir, sdkRepoURL), err being the one the if
\* statement declared
CallCloneRepository(ok) ==
  /\ sdkRepo.pc = "CloneRepository"
  /\ sdkRepo' = StepDone(sdkRepo, "CloneRepository", ok,
                         AfterClone(sdkRepo.fetchTags))
  /\ UNCHANGED <<nameVars, scalarVars, pathVars, concVars, faultVars, sigVars>>

\* err = FetchRepositoryTags(ctx, sdkDir)
CallFetchRepositoryTags(ok) ==
  /\ sdkRepo.pc = "FetchRepositoryTags"
  /\ sdkRepo' = ErrSet(StepDone(sdkRepo, "FetchRepositoryTags", ok,
                                "GetSDKVersion"),
                       ok, "FetchRepositoryTags")
  /\ UNCHANGED <<nameVars, scalarVars, pathVars, concVars, faultVars, sigVars>>

\* sdkVersion := GetSDKVersion(awsSDKGoVersion); if err != nil { return err };
\* sdkVersion = EnsureSemverPrefix(sdkVersion)
CallGetSDKVersion ==
  /\ sdkRepo.pc = "GetSDKVersion"
  /\ sdkRepo' =
       IF sdkRepo.err # "nil"
       THEN [sdkRepo EXCEPT !.pc = "returned", !.ret = sdkRepo.err]
       ELSE [sdkRepo EXCEPT
               !.sdkVersion =
                  EnsureSemverPrefix(GetSDKVersion(sdkRepo.awsSDKGoVersion)),
               !.pc = "LoadRepository"]
  /\ UNCHANGED <<nameVars, scalarVars, pathVars, concVars, faultVars, sigVars>>

\* repo, err := LoadRepository(sdkDir)
CallLoadRepository(ok) ==
  /\ sdkRepo.pc = "LoadRepository"
  /\ sdkRepo' = ErrSet(StepDone(sdkRepo, "LoadRepository", ok,
                                "CheckoutRepositoryTag"),
                       ok, "LoadRepository")
  /\ UNCHANGED <<nameVars, scalarVars, pathVars, concVars, faultVars, sigVars>>

\* err = CheckoutRepositoryTag(repo, sdkVersion), and return err
CallCheckoutRepositoryTag(ok) ==
  /\ sdkRepo.pc = "CheckoutRepositoryTag"
  /\ sdkRepo' =
       IF ok
       THEN [ErrSet(StepDone(sdkRepo, "CheckoutRepositoryTag", ok, "returned"),
                    ok, "CheckoutRepositoryTag")
               EXCEPT !.ret = "nil"]
       ELSE ErrSet(StepDone(sdkRepo, "CheckoutRepositoryTag", ok, "returned"),
                   ok, "CheckoutRepositoryTag")
  /\ UNCHANGED <<nameVars, scalarVars, pathVars, concVars, faultVars, sigVars>>

RepoNext ==
  \/ \E ok \in BOOLEAN : CallMkdirAll(ok)
  \/ \E found \in StatOutcomes : CallStat(found)
  \/ \E ok \in BOOLEAN : CallCloneRepository(ok)
  \/ \E ok \in BOOLEAN : CallFetchRepositoryTags(ok)
  \/ CallGetSDKVersion
  \/ \E ok \in BOOLEAN : CallLoadRepository(ok)
  \/ \E ok \in BOOLEAN : CallCheckoutRepositoryTag(ok)

RepoSpec == RepoInit /\ [][RepoNext]_vars
\* ------------------------------------------------------------------------
\* Properties of New
\* ------------------------------------------------------------------------
Done == pc = "done"

\* the Pascal-cased raw name, which the rules see on the Camel and Snake paths
Pascal == ToCamel(original)

Part(s, i, n) == SubSeq(s, i + 1, i + n)

Contains(s, w) == Index(s, w) # -1

Max(S) == CHOOSE x \in S : \A y \in S : y <= x

Modes == { <<FALSE, FALSE>>, <<TRUE, FALSE>>, <<FALSE, TRUE>> }

\* the rule's camelForm is at index i of s, and the rule's pattern, when it
\* has one, matches there
OccursAt(r, s, i) ==
  /\ HasPrefixAt(s, i, r.camel)
  /\ r.re # nil => MatchLen(r.re, s, i) >= 0

DelimiterFree(r) == ~Contains(r.lower, "_")

\* C1: for every rule with a delimiter-free lowerForm, an occurrence of its
\* camelForm at index 0 of the raw name is rendered as lowerForm in CamelLower
\* and as upperForm in Camel, and an occurrence at an index > 0 is rendered as
\* upperForm in both.
C1_LeadingWordException ==
  Done =>
    \A k \in DOMAIN initialisms : \A i \in 0..(Len(original) - 1) :
      LET r == initialisms[k] IN
      (DelimiterFree(r) /\ OccursAt(r, original, i)) =>
        /\ HasPrefixAt(names.Camel, i, r.upper)
        /\ HasPrefixAt(names.CamelLower, i, IF i = 0 THEN r.lower ELSE r.upper)

\* the length of the first camel-case word of s: its first character and the
\* lower-case letters and digits that follow it
RECURSIVE WordEnd(_, _)
WordEnd(s, i) ==
  IF i < Len(s) /\ CharAt(s, i) \in (LowerLetters \cup Digits)
  THEN WordEnd(s, i + 1) ELSE i

FirstWordLen(s) == IF s = "" THEN 0 ELSE WordEnd(s, 1)

\* the length of the longest upperForm s starts with, 0 when there is none
UpperFormPrefixLen(s) ==
  Max({0} \cup {Len(initialisms[k].upper) :
                  k \in {j \in DOMAIN initialisms :
                           HasPrefixAt(s, 0, initialisms[j].upper)}})

\* the leading word, read as generously as the outputs allow: the first word
\* of the raw name, the first word of Camel, or the initialism Camel starts
\* with, whichever is longest
LeadingWordLen ==
  Max({FirstWordLen(original), FirstWordLen(names.Camel),
       UpperFormPrefixLen(names.Camel)})

\* an output without the suffix of the keyword check
Unguarded(s) == TrimRight(s, "_")

\* C2: every initialism Camel renders in its upperForm after the leading word
\* is rendered in the same upperForm at the same position in CamelLower, and
\* Camel and CamelLower differ only inside the leading word.
C2_TwoPassConsistency ==
  Done =>
    LET camel == Unguarded(names.Camel)
        lower == Unguarded(names.CamelLower)
    IN /\ Len(camel) = Len(lower)
       /\ \A k \in DOMAIN initialisms : \A i \in LeadingWordLen..(Len(camel) - 1) :
            HasPrefixAt(camel, i, initialisms[k].upper)
              => HasPrefixAt(lower, i, initialisms[k].upper)
       /\ \A i \in LeadingWordLen..(Len(camel) - 1) :
            CharAt(camel, i) = CharAt(lower, i)

\* the composition of the lowerFirst branch as the specification gives it
SpecComposition(raw) ==
  KeywordGuard(
    normalizeInitialisms(
      ToLowerCamel(normalizeInitialisms(ToCamel(raw), FALSE, FALSE)),
      TRUE, FALSE))

\* the composition of the lowerFirst branch of goName
CodeComposition(raw) ==
  KeywordGuard(
    normalizeInitialisms(
      ToLowerCamel(normalizeInitialisms(raw, TRUE, FALSE)), TRUE, FALSE))

\* C3 as stated: CamelLower = guard(normalize(toLowerCamel(normalize(
\* toPascal(raw), lowerFirst=false, snake=false)), lowerFirst=true,
\* snake=false)) for every raw name.
C3_PascalFirst ==
  Done => names.CamelLower = SpecComposition(original)

\* C3: for every raw name, CamelLower = guard(normalize(toLowerCamel(normalize(
\* raw, lowerFirst=true, snake=false)), lowerFirst=true, snake=false)): the
\* first pass runs on the raw name itself, with lowerFirst=true.
C3_RawFirst ==
  Done => names.CamelLower = CodeComposition(original)

C3_Witness ==
  /\ Done
  /\ original = "Nat"
  /\ names.CamelLower = "nat"
  /\ SpecComposition(original) = "nAT"

\* C4: wherever the Pascal-cased raw name has "Dbi", Camel has "DBI" (and so
\* never "DBi"); DbiResourceId gives DBIResourceID, dbiResourceID,
\* dbi_resource_id and dbiresourceid.
C4_DbiRewritten ==
  Done =>
    /\ \A i \in 0..(Len(Pascal) - 1) :
         HasPrefixAt(Pascal, i, "Dbi") =>
           /\ HasPrefixAt(names.Camel, i, "DBI")
           /\ ~HasPrefixAt(names.Camel, i, "DBi")
    /\ original = "DbiResourceId" =>
         /\ names.Camel = "DBIResourceID"
         /\ names.CamelLower = "dbiResourceID"
         /\ names.Snake = "dbi_resource_id"
         /\ names.SnakeStripped = "dbiresourceid"

C4_Witness ==
  /\ Done
  /\ original = "KeyDbiDbi"
  /\ names.Camel = "KeyDBIDBI"

\* the table with the Dbi rule moved after the Db rules
DbiAt == CHOOSE k \in DOMAIN initialisms : initialisms[k].camel = "Dbi"

LastDbAt == Max({k \in DOMAIN initialisms : initialisms[k].camel = "Db"})

initialismsDbiAfterDb ==
  [k \in DOMAIN initialisms |->
     IF k < DbiAt \/ k > LastDbAt THEN initialisms[k]
     ELSE IF k = LastDbAt THEN initialisms[DbiAt]
     ELSE initialisms[k + 1]]

IdRule == initialisms[CHOOSE k \in DOMAIN initialisms : initialisms[k].camel = "Id"]

IdExclusions == { "entifier", "le", "entity", "empotency" }

ExcludedIdAt(s, i) ==
  /\ HasPrefixAt(s, i, "Id")
  /\ \E x \in IdExclusions : HasPrefixAt(s, i + 2, x)

FreeIdAt(s, i) == HasPrefixAt(s, i, "Id") /\ ~ExcludedIdAt(s, i)

Positions(s) == 0..(Len(s) - 1)

\* w is one of the words of the snake-cased s
HasWord(s, w) ==
  \E i \in Positions(s) :
    /\ HasPrefixAt(s, i, w)
    /\ i = 0 \/ CharAt(s, i - 1) = "_"
    /\ i + Len(w) = Len(s) \/ CharAt(s, i + Len(w)) = "_"

\* C6: in every mode the Id rule leaves each "Id" followed by entifier, le,
\* entity or empotency as it is and rewrites every other "Id"; end to end,
\* Camel keeps the excluded occurrences and has "ID" at the others, and
\* Identifier, Idle, IdempotencyToken, KeyIdentifier and
\* MaxIdleConnectionsPercent keep "Id" in Camel and CamelLower (but for the
\* lower-cased first letter) and get no word "id" in Snake.
C6_IdExclusions ==
  Done =>
    /\ \A m \in Modes :
         LET out == ApplyRule(IdRule, Pascal, m[1], m[2]) IN
         /\ Cardinality({i \in Positions(out) : ExcludedIdAt(out, i)})
              = Cardinality({i \in Positions(Pascal) : ExcludedIdAt(Pascal, i)})
         /\ \A i \in Positions(out) : ~FreeIdAt(out, i)
         /\ ~m[2] =>
              \A i \in Positions(Pascal) :
                /\ ExcludedIdAt(Pascal, i) => ExcludedIdAt(out, i)
                /\ FreeIdAt(Pascal, i) =>
                     HasPrefixAt(out, i, IF m[1] /\ i = 0 THEN "id" ELSE "ID")
    /\ \A i \in Positions(Pascal) :
         /\ ExcludedIdAt(Pascal, i) => ExcludedIdAt(names.Camel, i)
         /\ FreeIdAt(Pascal, i) => HasPrefixAt(names.Camel, i, "ID")
    /\ original \in { "Identifier", "Idle", "IdempotencyToken", "KeyIdentifier",
                      "MaxIdleConnectionsPercent" } =>
         /\ names.Camel = original
         /\ names.CamelLower = ToLowerCamel(original)
         /\ ~HasWord(names.Snake, "id")

C6_Witness ==
  /\ Done
  /\ original = "IdIdentifier"
  /\ ExcludedIdAt(Pascal, 2)
  /\ FreeIdAt(Pascal, 0)
  /\ names.Camel = "IDIdentifier"
  /\ names.CamelLower = "idIdentifier"

\* s has "ttl" at index i, in any letter case
TtlAt(s, i) == i + 3 <= Len(s) /\ ToLower(Part(s, i, 3)) = "ttl"

PrecededBy(s, i, w) == i >= Len(w) /\ Part(s, i - Len(w), Len(w)) = w

\* C7: a "ttl" (in any letter case) of the Pascal-cased raw name that is
\* preceded by "Thro", or followed by "ing" or "e", is left as it is in Camel,
\* and every other one is rewritten to "TTL".
C7_TtlExclusions ==
  Done =>
    \A i \in Positions(Pascal) :
      TtlAt(Pascal, i) =>
        IF \/ PrecededBy(Pascal, i, "Thro")
           \/ HasPrefixAt(Pascal, i + 3, "ing")
           \/ HasPrefixAt(Pascal, i + 3, "e")
        THEN Part(names.Camel, i, 3) = Part(Pascal, i, 3)
        ELSE Part(names.Camel, i, 3) = "TTL"

\* s is in the match space of a rule as the claim reads it: s contains the
\* rule's camelForm, or the rule's pattern matches in s
InMatchSpace(s) ==
  \E k \in DOMAIN initialisms :
    LET r == initialisms[k] IN
    \/ Contains(s, r.camel)
    \/ r.re # nil /\ FindFrom(r.re, s, 0) # -1

\* s is in the match space of a rule as normalizeInitialisms reads it: the
\* rule has a pattern and it matches in s, or the rule has none and s contains
\* its camelForm, its upperForm or its lowerForm
Fires(s) ==
  \E k \in DOMAIN initialisms :
    LET r == initialisms[k] IN
    IF r.re # nil THEN FindFrom(r.re, s, 0) # -1
    ELSE Contains(s, r.camel) \/ Contains(s, r.upper) \/ Contains(s, r.lower)

WithoutDelimiters(s) == Replace(s, "_", "", -1)

C9_SnakeDelimiters ==
  Done =>
    LET s == names.Snake IN
    /\ ~Contains(s, "__")
    /\ ~HasPrefixAt(s, 0, "_")
    /\ (Len(s) > 0 /\ CharAt(s, Len(s) - 1) = "_") =>
         \E k \in DOMAIN goKeywords : s = goKeywords[k] \o "_"

\* the first n characters of s without those that are no letter and no digit
RECURSIVE Kept(_, _)
Kept(s, n) ==
  IF n = 0 THEN ""
  ELSE Kept(s, n - 1)
         \o (IF IsAlphaNum(CharAt(s, n - 1)) THEN CharAt(s, n - 1) ELSE "")

\* C10: SnakeStripped is Snake with every character that is no ASCII letter
\* and no digit removed, the suffix of the keyword check included.
C10_SnakeStripped ==
  Done =>
    /\ names.SnakeStripped = Kept(names.Snake, Len(names.Snake))
    /\ \A i \in Positions(names.SnakeStripped) :
         IsAlphaNum(CharAt(names.SnakeStripped, i))
    /\ original = "DbInstanceId" =>
         names.Snake = "db_instance_id" /\ names.SnakeStripped = "dbinstanceid"
    /\ original = "Package" =>
         names.Snake = "package_" /\ names.SnakeStripped = "package"

C10_Witness ==
  /\ Done
  /\ original = "Package"
  /\ names.Snake = "package_"
  /\ names.SnakeStripped = "package"

\* the variant New returned for a mode of goName
Variant(m) ==
  IF m[2] THEN names.Snake ELSE IF m[1] THEN names.CamelLower ELSE names.Camel

\* variant is what the keyword check makes of the identifier cased
GuardedAs(cased, variant) ==
  /\ ~InStrings(variant, goKeywords)
  /\ variant = IF InStrings(cased, goKeywords) THEN cased \o "_" ELSE cased

\* C11: none of Camel, CamelLower and Snake is a Go keyword; each is the
\* identifier computed after all casing with one "_" appended when that
\* identifier is a keyword, and that identifier unchanged otherwise; Package
\* has CamelLower "package_" and Snake "package_".
C11_ReservedWordGuard ==
  Done =>
    /\ Len(goKeywords) = 25
    /\ \A m \in Modes :
         GuardedAs(casedWith(initialisms, original, m[1], m[2]), Variant(m))
    /\ original = "Package" =>
         names.CamelLower = "package_" /\ names.Snake = "package_"

C11_Witness ==
  /\ Done
  /\ original = "Range"
  /\ InStrings(casedWith(initialisms, original, FALSE, TRUE), goKeywords)
  /\ ~InStrings(casedWith(initialisms, original, FALSE, FALSE), goKeywords)
  /\ names.Camel = "Range"
  /\ names.CamelLower = "range_"
  /\ names.Snake = "range_"

\* raw with the camelForm of rule r at index i spelled as its upperForm
Respelled(raw, i, r) ==
  SubSeq(raw, 1, i) \o r.upper \o SubSeq(raw, i + Len(r.camel) + 1, Len(raw))

SameVariants(a, b) ==
  /\ a.Camel = b.Camel
  /\ a.CamelLower = b.CamelLower
  /\ a.Snake = b.Snake
  /\ a.SnakeStripped = b.SnakeStripped

\* C12: for every rule and every occurrence of its camelForm in the raw name,
\* the raw name with that occurrence spelled as the upperForm has the same
\* Camel, CamelLower, Snake and SnakeStripped.
C12_SpellingInvariance ==
  Done =>
    \A k \in DOMAIN initialisms : \A i \in Positions(original) :
      OccursAt(initialisms[k], original, i) =>
        SameVariants(NewNames(Respelled(original, i, initialisms[k])), names)

\* C13: New never panics.
C13_NewIsTotal == pc # "panic"

\* the letters and digits of s, lower-cased
Spelling(s) == ToLower(Kept(s, Len(s)))

ScalarDone == equal.strict # <<>> /\ equal.loose # <<>>

\* what a pointer stands for when nil is read as the zero value
ValueOrZero(type, ptr) == IF ptr = nil THEN ZeroValue(type) ELSE ptr[1]

PointsToZero(type, ptr) ==
  ptr # nil /\ ValuesEqual(type, ptr[1], ZeroValue(type))

\* C18: EqualPStrict is true exactly when both pointers are nil or both are
\* not and point to equal values; EqualP is true exactly when the values are
\* equal with a nil pointer read as the zero value; both are symmetric,
\* EqualPStrict implies EqualP, and they differ exactly when one pointer is
\* nil and the other points to the zero value (a value that == the zero).
C18_PointerEquality ==
  ScalarDone =>
    /\ equal.strict[1] =
         (\/ argX = nil /\ argY = nil
          \/ argX # nil /\ argY # nil
               /\ ValuesEqual(scalarType, argX[1], argY[1]))
    /\ equal.loose[1] =
         ValuesEqual(scalarType, ValueOrZero(scalarType, argX),
                     ValueOrZero(scalarType, argY))
    /\ equal.strict[1] = EqualPStrict(scalarType, argY, argX)
    /\ equal.loose[1] = EqualP(scalarType, argY, argX)
    /\ equal.strict[1] => equal.loose[1]
    /\ (equal.strict[1] # equal.loose[1]) =
         (\/ argX = nil /\ PointsToZero(scalarType, argY)
          \/ argY = nil /\ PointsToZero(scalarType, argX))

C18_Witness ==
  /\ ScalarDone
  /\ scalarType = "int"
  /\ argX = nil
  /\ argY = PointerTo(0)
  /\ equal.strict = <<FALSE>>
  /\ equal.loose = <<TRUE>>

\* ------------------------------------------------------------------------
\* Properties of package fieldpath
\* ------------------------------------------------------------------------
\* the parts of Path on before the last call and after it
PartsBefore(on) == IF on = "p" THEN last.p ELSE last.c

PartsNow(on) == Parts(arrays, PartsOf(on))

\* the last call changed the parts of its receiver, or could have
Changing == last.op \in {"Pop", "PopFront", "PushBack"}

\* index is one of the sequence's, counted from 0
ValidIndex(index, seq) == 0 <= index /\ index < Len(seq)

\* the sequence without its last element
Front1(seq) == SubSeq(seq, 1, Len(seq) - 1)

\* what the call read of current sequence seq
Reflects(seq) ==
  /\ last.op = "String" => last.ret = Join(seq, ".")
  /\ last.op = "Size" => last.size = Len(seq)
  /\ last.op = "Empty" => last.ret = BoolString(seq = <<>>)
  /\ last.op = "Front" /\ seq # <<>> => last.ret = seq[1]
  /\ last.op = "Back" /\ seq # <<>> => last.ret = seq[Len(seq)]
  /\ last.op = "At" /\ ValidIndex(last.index, seq) =>
       last.ret = seq[last.index + 1]

\* the sequence the call left of sequence seq, and the part it returned
Steps(seq, now) ==
  /\ last.op = "Pop" /\ seq # <<>> =>
       now = Front1(seq) /\ last.ret = seq[Len(seq)]
  /\ last.op = "PopFront" /\ seq # <<>> =>
       now = Tail(seq) /\ last.ret = seq[1]
  /\ last.op = "PushBack" => now = Append(seq, last.arg)

\* C15: a Path is a double-ended list of parts: from FromString(s) on, Pop
\* leaves the sequence without its last element, PopFront without its first
\* and PushBack with the part appended; Pop and PopFront return the part they
\* removed; String, Size, Empty, Front, Back and At(i) read the current
\* sequence, and FromString(s).String() is s.
C15_DoubleEndedList ==
  /\ last.op = "FromString" => String(arrays, pathP) = last.arg
  /\ last.on \in Receivers /\ last.op # "FromString" =>
       /\ Steps(PartsBefore(last.on), PartsNow(last.on))
       /\ Reflects(PartsNow(last.on))

C15_Witness ==
  /\ last.op = "PopFront"
  /\ last.on = "p"
  /\ last.p = <<"Author", "Address", "State">>
  /\ last.ret = "Author"
  /\ PartsNow("p") = <<"Address", "State">>

\* s and t are the same part, case ignored when fold
SamePart(s, t, fold) == IF fold THEN ToLower(s) = ToLower(t) ELSE s = t

\* list is no longer than seq and is its first elements
IsPrefix(list, seq, fold) ==
  /\ Len(list) <= Len(seq)
  /\ \A i \in 1..Len(list) : SamePart(seq[i], list[i], fold)

\* C16: HasPrefix(subject) is true exactly when subject split on "." is no
\* longer than the parts and equals the first parts element by element (on
\* Author.Name: true for "Author" and "Author.Name", false for
\* "Author.Name.First", "Name" and "Author.Address"); HasPrefixFold is the
\* same with case ignored; neither indexes out of range, the empty Path
\* included.
C16_HasPrefix ==
  last.op \in {"HasPrefix", "HasPrefixFold"} =>
    /\ last.ret = BoolString(IsPrefix(Split(last.arg, "."), PartsNow("p"),
                                      last.op = "HasPrefixFold"))
    /\ last.op = "HasPrefix" /\ PartsNow("p") = <<"Author", "Name">> =>
         (last.ret = "true") = (last.arg \in {"Author", "Author.Name"})
    /\ last.ret # OutOfRange

C16_Witness ==
  /\ last.op = "HasPrefixFold"
  /\ last.calls = 1
  /\ PartsNow("p") = <<"Author">>
  /\ last.arg = "author"
  /\ last.ret = "true"

\* C17: after c = p.Copy() or c = p.CopyAt(i), PushBack, Pop and PopFront on
\* c leave the parts of p as they were, and on p leave the parts of c as they
\* were.
C17_CopyIsIndependent ==
  Changing /\ pathC # nil =>
    /\ last.on = "c" => PartsNow("p") = last.p
    /\ last.on = "p" => PartsNow("c") = last.c

\* C19: the accessors are total: on a Path with no parts Pop, PopFront, Front
\* and Back return "" and leave it with no parts; At(i) returns "" and
\* CopyAt(i) nil for i < 0 or i >= Size; CopyAt(i) for another i returns a
\* Path of parts 0..i; none indexes out of range.
C19_AccessorsTotal ==
  /\ last.ret # OutOfRange
  /\ last.op \in {"Pop", "PopFront", "Front", "Back"}
       /\ PartsBefore(last.on) = <<>> =>
       last.ret = "" /\ PartsNow(last.on) = <<>>
  /\ last.op = "At" /\ ~ValidIndex(last.index, PartsNow(last.on)) =>
       last.ret = ""
  /\ last.op = "CopyAt" =>
       IF ValidIndex(last.index, last.p)
       THEN pathC # nil /\ PartsNow("c") = SubSeq(last.p, 1, last.index + 1)
       ELSE pathC = nil /\ last.ret = "nil"

C19_Witness ==
  /\ last.op = "At"
  /\ last.on = "p"
  /\ PartsNow("p") = <<>>
  /\ last.index = 0 - 1
  /\ last.ret = ""
\* ------------------------------------------------------------------------
\* Properties of concurrent calls of New
\* ------------------------------------------------------------------------
\* the call in frame f has done what New(f.original) does when no other
\* call runs
AsAlone(f) ==
  /\ f.pc = "done" =>
       ~NewPanics(f.original) /\ f.names = NewNames(f.original)
  /\ f.pc = "panic" => NewPanics(f.original)

\* C14: concurrent calls of New need no synchronization: no call writes the
\* rule table or the keyword list, which stay as they were initialised, and
\* under every interleaving each call returns what it returns when run alone.
C14_ConcurrentNew ==
  /\ rules = initialisms
  /\ keywords = goKeywords
  /\ \A c \in DOMAIN frames : AsAlone(frames[c])

C14_Witness ==
  /\ frames # <<>>
  /\ frames[1].original = "range"
  /\ frames[1].pc = "Snake"
  /\ frames[1].names.CamelLower = "range_"
  /\ frames[2].original = "Id"
  /\ frames[2].pc = "done"
  /\ frames[2].names.Camel = "ID"
  /\ frames[2].names.SnakeStripped = "id"
\* ------------------------------------------------------------------------
\* Properties of New applied to its own result
\* ------------------------------------------------------------------------
\* C21: the Camel form is a fixed point of New: New(New(x).Camel).Camel is
\* New(x).Camel for every raw name x, the single pass over the rule table
\* changing nothing of a name that is already normalized.
C21_CamelFixedPoint ==
  pc = "done" => goName(names.Camel, FALSE, FALSE) = names.Camel

\* C22: whenever a matcher operation (FindStringMatch, FindNextMatch or
\* Replace) reports an error inside normalizeInitialisms, the function
\* returns an error and goName panics: no matcher error ends in a result
\* that goName returns as the name.
C22_MatcherErrorPanics ==
  goNameCall.reported => goNameCall.pc = "panic"

\* ------------------------------------------------------------------------
\* Properties of ContextWithSigterm
\* ------------------------------------------------------------------------
\* one of the three events has happened
Triggered == signalled \/ parentDone \/ canceller # "idle"

\* a step after signal.Stop returned puts no signal into the channel
StoppedStep ==
  canceller \in {"cancel", "returned"} => Len(signalCh') <= Len(signalCh)

\* C23: the returned context eventually becomes done after a SIGINT or
\* SIGTERM is sent, after the parent context is cancelled, and after the
\* returned cancelFunc is called; in each case the goroutine terminates; and
\* once cancelFunc has called signal.Stop no signal is delivered to the
\* channel; under every interleaving.
C23_SigtermContext ==
  /\ signalled ~> ctxDone
  /\ parentDone ~> ctxDone
  /\ (canceller # "idle") ~> ctxDone
  /\ Triggered ~> (watcher = "exited")
  /\ [](canceller \in {"cancel", "returned"} => ~notifying)
  /\ [][StoppedStep]_vars

C23_Witness ==
  /\ signalled
  /\ ~parentDone
  /\ canceller = "stop"
  /\ signalCh = <<"SIGTERM">>
  /\ watcher = "exited"
  /\ ctxDone

\* ------------------------------------------------------------------------
\* Properties of EnsureSDKRepo
\* ------------------------------------------------------------------------
\* the steps in their order
StepOrder ==
  << "MkdirAll", "CloneRepository", "FetchRepositoryTags", "LoadRepository",
     "CheckoutRepositoryTag" >>

PlaceOf(step) == CHOOSE k \in DOMAIN StepOrder : StepOrder[k] = step

\* step has run
Ran(step) == \E k \in DOMAIN sdkRepo.steps : sdkRepo.steps[k].name = step

\* str starts with exactly one "v" and is otherwise version without its
\* leading "v"s
OneLeadingV(str, version) ==
  /\ Len(str) >= 1 /\ CharAt(str, 0) = "v"
  /\ Len(str) >= 2 => CharAt(str, 1) # "v"
  /\ \E n \in 0..Len(version) :
       /\ \A i \in 0..(n - 1) : CharAt(version, i) = "v"
       /\ str = "v" \o SubSeq(version, n + 1, Len(version))

\* C24: EnsureSDKRepo runs create source directory, clone (only when the
\* repository directory does not exist), fetch tags (only when fetchTags),
\* load repository, checkout of the version with exactly one leading "v", in
\* this order; the first step that fails makes it return that step's error
\* and no later step runs; it returns nil only when the checkout succeeded.
C24_StepsInOrder ==
  /\ \A j, k \in DOMAIN sdkRepo.steps :
       j < k => PlaceOf(sdkRepo.steps[j].name) < PlaceOf(sdkRepo.steps[k].name)
  /\ Ran("CloneRepository") => sdkRepo.stat = "notexist"
  /\ Ran("FetchRepositoryTags") => sdkRepo.fetchTags
  /\ Ran("LoadRepository") =>
       /\ Ran("MkdirAll")
       /\ Ran("CloneRepository") = (sdkRepo.stat = "notexist")
       /\ Ran("FetchRepositoryTags") = sdkRepo.fetchTags
       /\ OneLeadingV(sdkRepo.sdkVersion, sdkRepo.awsSDKGoVersion)
  /\ Ran("CheckoutRepositoryTag") => Ran("LoadRepository")
  /\ \A k \in DOMAIN sdkRepo.steps :
       ~sdkRepo.steps[k].ok =>
         /\ k = Len(sdkRepo.steps)
         /\ sdkRepo.pc = "returned"
         /\ sdkRepo.ret = Wrapped(sdkRepo.steps[k].name,
                                  ErrorOf(sdkRepo.steps[k].name))
  /\ sdkRepo.pc = "returned" =>
       (sdkRepo.ret = "nil") =
         (/\ Ran("CheckoutRepositoryTag")
          /\ \A k \in DOMAIN sdkRepo.steps : sdkRepo.steps[k].ok)
  /\ sdkRepo.pc \notin {"returned", "idle"} => sdkRepo.ret = ""

C24_Witness ==
  /\ sdkRepo.pc = "returned"
  /\ sdkRepo.ret = "nil"
  /\ sdkRepo.fetchTags
  /\ sdkRepo.stat = "notexist"
  /\ sdkRepo.awsSDKGoVersion = "vv1.44.93"
  /\ sdkRepo.sdkVersion = "v1.44.93"
  /\ Len(sdkRepo.steps) = 5
====
